---- MODULE Spec2Model ----
(***************************************************************************)
(* Model of the rule-driven code analysis of src/static_analysis/code.rs:  *)
(* the catalog loader load_rules, the facade code_analysis (load, walk,    *)
(* spawn, progress loop, join, drain), the worker loop over the shared     *)
(* file queue, and the per-file evaluator analyze_file (SDK gate,          *)
(* permission gate, primary scan, whitelist, forward check).               *)
(*                                                                         *)
(* Texts are sequences of one-character strings.  Offsets are the byte     *)
(* offsets of the source (0-based, a span is [s, e)); every character of   *)
(* the alphabet is one byte.  A compiled regex is a fixed-length sequence  *)
(* of character classes with an optional leading word-boundary assertion   *)
(* and the index ranges of the named captures fc1 and fc2.  Option values  *)
(* are sequences of length 0 (None) or 1 (Some).  A string of the catalog  *)
(* is a sequence of tokens (a character, a placeholder or a word); a       *)
(* pattern string is given by the regex it compiles to.                    *)
(***************************************************************************)
EXTENDS Integers, Sequences, FiniteSets, Bags, TLC

\* ------------------------------------------------------------------ bounds
MaxThreads == 2
MaxFiles == 2
MaxLen == 3
MaxRules == 2
MaxEntries == 2
MaxQueue == 3
MaxDefects == 2

\* ------------------------------------------------------------- option type
None == <<>>
Some(x) == <<x>>
IsSome(o) == Len(o) = 1
Unwrap(o) == o[1]

\* ---------------------------------------------------------------- alphabet
Chars == {"a", "b", "(", "\n"}
IsWord(c) == c \in {"a", "b"}
Texts == UNION {[1..n -> Chars] : n \in 0..MaxLen}

\* ------------------------------------------------------------ regex engine
\* a word boundary lies at offset s of text (regex \b)
WordBoundary(text, s) ==
    LET before == s >= 1 /\ IsWord(text[s])
        after == s < Len(text) /\ IsWord(text[s + 1])
    IN before # after

AssertOk(pre, text, s) ==
    CASE pre = "none" -> TRUE
      [] pre = "b" -> WordBoundary(text, s)
      [] pre = "B" -> ~WordBoundary(text, s)

\* the regex matches text at offset s (its match is then [s, s + Len(cls)))
MatchAt(re, text, s) ==
    /\ s + Len(re.cls) <= Len(text)
    /\ AssertOk(re.pre, text, s)
    /\ \A k \in 1..Len(re.cls) : text[s + k] \in re.cls[k]

\* Regex::find_iter: successive non-overlapping matches, left to right
RECURSIVE FindIterFrom(_, _, _)
FindIterFrom(re, text, pos) ==
    IF pos + Len(re.cls) > Len(text) THEN <<>>
    ELSE IF MatchAt(re, text, pos)
         THEN <<<<pos, pos + Len(re.cls)>>>> \o FindIterFrom(re, text, pos + Len(re.cls))
         ELSE FindIterFrom(re, text, pos + 1)

FindIter(re, text) == FindIterFrom(re, text, 0)

\* Regex::is_match
IsMatch(re, text) == \E s \in 0..Len(text) : MatchAt(re, text, s)

\* Regex::captures on text: None when the regex does not match, otherwise
\* the values of fc1 and fc2 (None for a group the regex does not declare)
Captures(re, text) ==
    IF ~IsMatch(re, text) THEN None
    ELSE LET s == CHOOSE p \in 0..Len(text) :
                      MatchAt(re, text, p) /\ \A q \in 0..(p - 1) : ~MatchAt(re, text, q)
             Grp(g) == IF g = <<>> THEN None
                       ELSE Some(SubSeq(text, s + g[1], s + g[2]))
         IN Some([fc1 |-> Grp(re.fc1), fc2 |-> Grp(re.fc2)])

\* str::replace of one placeholder token by the captured text
RECURSIVE Replace(_, _, _)
Replace(r, tok, val) ==
    IF r = <<>> THEN <<>>
    ELSE (IF r[1] = tok THEN val ELSE <<r[1]>>) \o Replace(Tail(r), tok, val)

\* Regex::new on a pattern string: an opening parenthesis is never closed
\* (the alphabet has no closing one) and a left-over placeholder is an
\* invalid counted repetition; both are compile errors
CompileOk(r) == \A i \in 1..Len(r) : r[i] \notin {"(", "{fc1}", "{fc2}"}

RegexNew(r) ==
    [pre |-> "none", cls |-> [i \in 1..Len(r) |-> {r[i]}], fc1 |-> <<>>, fc2 |-> <<>>]

\* ------------------------------------------------------------- line numbers
RECURSIVE LineLoop(_, _, _, _)
LineLoop(index, text, i, line) ==
    IF i >= Len(text) THEN line
    ELSE IF i = index THEN line
    ELSE LineLoop(index, text, i + 1, IF text[i + 1] = "\n" THEN line + 1 ELSE line)

\* the lines are counted from 1
get_line_for_from_one(index, text) == LineLoop(index, text, 0, 1)

get_line_for(index, text) == LineLoop(index, text, 0, 0)

\* ------------------------------------------------------- rules and manifest
Lit(str) ==
    [pre |-> "none", cls |-> [i \in 1..Len(str) |-> {str[i]}], fc1 |-> <<>>, fc2 |-> <<>>]

\* lines 319-328: struct Rule
RuleOf(regex, permissions, forward_check, max_sdk, label, description, criticity, whitelist) ==
    [regex |-> regex, permissions |-> permissions, forward_check |-> forward_check,
     max_sdk |-> max_sdk, label |-> label, description |-> description,
     criticity |-> criticity, whitelist |-> whitelist]

Rule(regex, whitelist, permissions, forward_check, max_sdk) ==
    RuleOf(regex, permissions, forward_check, max_sdk, <<"label">>, <<"description">>,
           "warning", whitelist)

\* [ab(] with the whitelist <<\(, b>>
RuleWhite ==
    Rule([pre |-> "none", cls |-> <<{"a", "b", "("}>>, fc1 |-> <<>>, fc2 |-> <<>>],
         <<Lit(<<"(">>), Lit(<<"b">>)>>, <<>>, None, None)

\* b, for applications whose minimum SDK is at most 1
RuleSdk == Rule(Lit(<<"b">>), <<>>, <<>>, None, Some(1))

\* a, for applications holding two permissions
RulePerm == Rule(Lit(<<"a">>), <<>>, <<"INTERNET", "CAMERA">>, None, None)

\* (?P<fc1>[a(]) with the forward check {fc1}
RuleFc ==
    Rule([pre |-> "none", cls |-> <<{"a", "("}>>, fc1 |-> <<1, 1>>, fc2 |-> <<>>],
         <<>>, <<>>, Some(<<"{fc1}">>), None)

\* (?P<fc1>[ab])(?P<fc2>[ab\n]) with the forward check {fc2}{fc1}
RuleFc2 ==
    Rule([pre |-> "none", cls |-> <<{"a", "b"}, {"a", "b", "\n"}>>, fc1 |-> <<1, 1>>, fc2 |-> <<2, 2>>],
         <<>>, <<>>, Some(<<"{fc2}", "{fc1}">>), None)

\* (?P<fc2>[ab])(?P<fc1>[ab\n]) with the forward check {fc1}{fc2}
RuleFc21 ==
    Rule([pre |-> "none", cls |-> <<{"a", "b"}, {"a", "b", "\n"}>>, fc1 |-> <<2, 2>>, fc2 |-> <<1, 1>>],
         <<>>, <<>>, Some(<<"{fc1}", "{fc2}">>), None)

\* \B(?P<fc1>[ab]) with the forward check {fc1}
RuleFcB ==
    Rule([pre |-> "B", cls |-> <<{"a", "b"}>>, fc1 |-> <<1, 1>>, fc2 |-> <<>>],
         <<>>, <<>>, Some(<<"{fc1}">>), None)

\* a with the whitelist <<b>> and the forward check b
RuleFcWhite == Rule(Lit(<<"a">>), <<Lit(<<"b">>)>>, <<>>, Some(<<"b">>), None)

\* [ab][ab] with the whitelist <<bb>>
RulePair ==
    Rule([pre |-> "none", cls |-> <<{"a", "b"}, {"a", "b"}>>, fc1 |-> <<>>, fc2 |-> <<>>],
         <<Lit(<<"b", "b">>)>>, <<>>, None, None)

\* a rule without forward check whose matches end on the next line
RuleLines ==
    Rule(Lit(<<"a", "\n">>), <<>>, <<>>, None, None)

RulePool ==
    {RuleWhite, RuleSdk, RulePerm, RulePair, RuleFc, RuleFc2, RuleFc21, RuleFcB, RuleFcWhite,
     RuleLines}

ManifestPool ==
    {None,
     Some([min_sdk |-> 0, permissions |-> {}]),
     Some([min_sdk |-> 1, permissions |-> {"INTERNET", "CAMERA"}]),
     Some([min_sdk |-> 2, permissions |-> {"INTERNET"}])}

\* ------------------------------------------------------------ analyze_file
\* a rule whose max_sdk equals the minimum SDK is skipped as well
SdkSkipOrEqual(rule, manifest) ==
    /\ IsSome(manifest) /\ IsSome(rule.max_sdk)
    /\ Unwrap(rule.max_sdk) <= Unwrap(manifest).min_sdk

\* lines 157-161: the rule is skipped for the SDK
SdkSkip(rule, manifest) ==
    /\ IsSome(manifest) /\ IsSome(rule.max_sdk)
    /\ Unwrap(rule.max_sdk) < Unwrap(manifest).min_sdk

\* the rule is skipped only when none of its permissions is held
PermissionSkipAll(rule, manifest) ==
    /\ rule.permissions # <<>>
    /\ \A i \in 1..Len(rule.permissions) :
           \/ ~IsSome(manifest)
           \/ rule.permissions[i] \notin Unwrap(manifest).permissions

\* lines 163-171: the rule is skipped for a permission
PermissionSkip(rule, manifest) ==
    \E i \in 1..Len(rule.permissions) :
        \/ ~IsSome(manifest)
        \/ rule.permissions[i] \notin Unwrap(manifest).permissions

\* the whitelist is matched against the whole file
WhitelistedInFile(rule, code, s, e) ==
    \E i \in 1..Len(rule.whitelist) : IsMatch(rule.whitelist[i], code)

\* only the first whitelist regex is consulted
WhitelistedFirstOnly(rule, code, s, e) ==
    /\ rule.whitelist # <<>>
    /\ IsMatch(rule.whitelist[1], SubSeq(code, s + 1, e))

\* lines 174-178: some whitelist regex matches the matched text
Whitelisted(rule, code, s, e) ==
    \E i \in 1..Len(rule.whitelist) : IsMatch(rule.whitelist[i], SubSeq(code, s + 1, e))

\* what the evaluator does next: push a finding, warn, or panic.  The rule
\* index stands for the criticity, label and description of the finding; s, e
\* (the reported span) and ps, pe (the primary match) are kept for reference
EventLinesSwapped(kind, idx, code, s, e, ps, pe) ==
    [kind |-> kind, rule |-> idx,
     start_line |-> get_line_for(e, code), end_line |-> get_line_for(s, code),
     s |-> s, e |-> e, ps |-> ps, pe |-> pe]

Event(kind, idx, code, s, e, ps, pe) ==
    [kind |-> kind, rule |-> idx,
     start_line |-> get_line_for(s, code), end_line |-> get_line_for(e, code),
     s |-> s, e |-> e, ps |-> ps, pe |-> pe]

\* the secondary regex is applied to the text after the primary match only
SecondaryEventsAfter(idx, code, regex, ps, pe) ==
    LET ms == FindIterFrom(regex, code, pe)
    IN [j \in 1..Len(ms) |-> Event("push", idx, code, ms[j][1], ms[j][2], ps, pe)]

\* lines 228-247: one finding per match of the secondary regex
SecondaryEvents(idx, code, regex, ps, pe) ==
    LET ms == FindIter(regex, code)
    IN [j \in 1..Len(ms) |-> Event("push", idx, code, ms[j][1], ms[j][2], ps, pe)]

\* lines 201-213: the forward check with the captures substituted
Substitute(check, caps) ==
    LET r1 == IF IsSome(caps.fc1) THEN Replace(check, "{fc1}", Unwrap(caps.fc1)) ELSE check
    IN IF IsSome(caps.fc2) THEN Replace(r1, "{fc2}", Unwrap(caps.fc2)) ELSE r1

\* lines 173-251: the loop 'rule over the primary matches ms still to visit
RECURSIVE MatchEvents(_, _, _, _)
MatchEvents(idx, rule, code, ms) ==
    IF ms = <<>> THEN <<>>
    ELSE LET s == ms[1][1]
             e == ms[1][2]
         IN IF Whitelisted(rule, code, s, e)
            THEN MatchEvents(idx, rule, code, Tail(ms))
            ELSE IF ~IsSome(rule.forward_check)
            THEN <<Event("push", idx, code, s, e, s, e)>> \o MatchEvents(idx, rule, code, Tail(ms))
            ELSE LET caps == Captures(rule.regex, SubSeq(code, s + 1, e))
                 IN IF ~IsSome(caps)
                    THEN <<Event("panic", idx, code, s, e, s, e)>>
                    ELSE LET r == Substitute(Unwrap(rule.forward_check), Unwrap(caps))
                         IN IF ~CompileOk(r)
                            THEN <<Event("warn", idx, code, s, e, s, e)>>
                            ELSE SecondaryEvents(idx, code, RegexNew(r), s, e)
                                     \o MatchEvents(idx, rule, code, Tail(ms))

\* the rule reports its findings from the last to the first
RuleEventsRightToLeft(idx, rule, code, manifest) ==
    LET ev == IF SdkSkip(rule, manifest) \/ PermissionSkip(rule, manifest) THEN <<>>
              ELSE MatchEvents(idx, rule, code, FindIter(rule.regex, code))
    IN [j \in 1..Len(ev) |-> ev[Len(ev) + 1 - j]]

\* the rule stops at its first finding in the file
RuleEventsFirstOnly(idx, rule, code, manifest) ==
    LET ev == IF SdkSkip(rule, manifest) \/ PermissionSkip(rule, manifest) THEN <<>>
              ELSE MatchEvents(idx, rule, code, FindIter(rule.regex, code))
    IN IF ev = <<>> THEN <<>> ELSE <<ev[1]>>

\* a forward check that does not compile takes back what the rule has
\* reported in the file
RuleEventsDropOnWarn(idx, rule, code, manifest) ==
    LET ev == IF SdkSkip(rule, manifest) \/ PermissionSkip(rule, manifest) THEN <<>>
              ELSE MatchEvents(idx, rule, code, FindIter(rule.regex, code))
    IN IF ev # <<>> /\ ev[Len(ev)].kind = "warn" THEN <<ev[Len(ev)]>> ELSE ev

\* lines 156-252: one rule on one file
RuleEvents(idx, rule, code, manifest) ==
    IF SdkSkip(rule, manifest) THEN <<>>
    ELSE IF PermissionSkip(rule, manifest) THEN <<>>
    ELSE MatchEvents(idx, rule, code, FindIter(rule.regex, code))

\* lines 156-252: the loop 'check over the catalog, from rule idx on
RECURSIVE AnalyzeEvents(_, _, _, _)
AnalyzeEvents(idx, rules, code, manifest) ==
    IF idx > Len(rules) THEN <<>>
    ELSE RuleEvents(idx, rules[idx], code, manifest)
             \o AnalyzeEvents(idx + 1, rules, code, manifest)

\* -------------------------------------------------------- the catalog file
\* A JSON value as load_rules reads it: t is its type ("absent" for a key the
\* object does not have, "other" for a type no key takes), s the tokens of a
\* string, ok and re what Regex::new makes of a string used as a pattern, n
\* the limbs of an unsigned number, items the elements of an array
Json(t, s, ok, re, n, items) ==
    [t |-> t, s |-> s, ok |-> ok, re |-> re, n |-> n, items |-> items]

JAbsent == Json("absent", <<>>, FALSE, Lit(<<>>), <<0, 0, 0, 0>>, <<>>)
JOther == Json("other", <<>>, FALSE, Lit(<<>>), <<0, 0, 0, 0>>, <<>>)
JString(s) == Json("string", s, FALSE, Lit(<<>>), <<0, 0, 0, 0>>, <<>>)
JPattern(re) == Json("string", <<>>, TRUE, re, <<0, 0, 0, 0>>, <<>>)
JU64(n) == Json("u64", <<>>, FALSE, Lit(<<>>), n, <<>>)
JArray(items) == Json("array", <<>>, FALSE, Lit(<<>>), <<0, 0, 0, 0>>, items)

\* the keys load_rules asks for
Keys ==
    {"label", "description", "criticity", "regex", "whitelist", "permissions",
     "forward_check", "max_sdk"}

\* a JSON object: its known keys, and how many keys outside Keys it has
JObject(keys, extra) == [t |-> "object", keys |-> keys, extra |-> extra]
JNotObject == [t |-> "other", keys |-> [k \in Keys |-> JAbsent], extra |-> 0]

\* rule.get(key)
Get(rule, key) == rule.keys[key]

\* rule.len()
ObjectLen(rule) == Cardinality({k \in Keys : Get(rule, k).t # "absent"}) + rule.extra

\* an unsigned 64-bit number is four limbs of 16 bits, the most significant
\* first
Limb == 65536

\* line 434: sdk as i32 keeps the low 32 bits, read as two's complement
AsI32(n) ==
    IF n[3] >= Limb \div 2 THEN (n[3] - Limb) * Limb + n[4] ELSE n[3] * Limb + n[4]

\* Permission::from_str: the permissions the manifest module knows
KnownPermissions == {"INTERNET", "CAMERA"}
PermissionFromStr(s) ==
    IF Len(s) = 1 /\ s[1] \in KnownPermissions THEN Some(s[1]) ELSE None

\* Criticity::from_str: one of five names, whatever the case of the letters
Criticities == {"warning", "low", "medium", "high", "critical"}
ToLowercase(tok) ==
    CASE tok = "Warning" -> "warning"
      [] tok = "HIGH" -> "high"
      [] tok = "Critical" -> "critical"
      [] OTHER -> tok
CriticityFromStr(s) ==
    IF Len(s) = 1 /\ ToLowercase(s[1]) \in Criticities THEN Some(ToLowercase(s[1])) ELSE None
CriticityError == "ParseError"

\* -------------------------------------------------------------- load_rules
\* regex.capture_names(): the groups in the order they open, the unnamed
\* group 0 first
CaptureNames(regex) ==
    LET one == IF regex.fc1 # <<>> THEN <<Some("fc1")>> ELSE <<>>
        two == IF regex.fc2 # <<>> THEN <<Some("fc2")>> ELSE <<>>
        fc2First ==
            /\ regex.fc1 # <<>> /\ regex.fc2 # <<>>
            /\ \/ regex.fc2[1] < regex.fc1[1]
               \/ regex.fc2[1] = regex.fc1[1] /\ regex.fc2[2] > regex.fc1[2]
    IN <<None>> \o (IF fc2First THEN two \o one ELSE one \o two)

\* s.contains(tok)
Contains(s, tok) == \E j \in 1..Len(s) : s[j] = tok

\* only the placeholder of fc1 is asked for
PlaceholderMissingFc1(names, s) ==
    \E i \in 1..Len(names) : names[i] = Some("fc1") /\ ~Contains(s, "{fc1}")

\* lines 475-498: a named capture whose placeholder is not in the template
PlaceholderMissing(names, s) ==
    \E i \in 1..Len(names) :
        \/ names[i] = Some("fc1") /\ ~Contains(s, "{fc1}")
        \/ names[i] = Some("fc2") /\ ~Contains(s, "{fc2}")

\* Iterator::find on what is left of the iterator from position from on: the
\* position of the first element that is the group name, 0 when there is none
Find(names, from, name) ==
    LET hits == {i \in from..Len(names) : names[i] = Some(name)}
    IN IF hits = {} THEN 0 ELSE CHOOSE i \in hits : \A j \in hits : i <= j

\* fc2 may come without fc1
Fc2Unchecked(names) == FALSE

\* lines 500-507: fc2 is found and fc1 is not found in what the first find
\* left of the same iterator
Fc2WithoutFc1(names) ==
    LET i == Find(names, 1, "fc2")
    IN i # 0 /\ Find(names, i + 1, "fc1") = 0

\* a permission the manifest module does not know is left out of the list
PermissionsOfKnown(v) ==
    IF v.t = "absent" THEN Some(<<>>)
    ELSE IF v.t # "array" THEN None
    ELSE IF \E i \in 1..Len(v.items) : v.items[i].t # "string" THEN None
    ELSE Some(SelectSeq([i \in 1..Len(v.items) |-> v.items[i].s[1]],
                        LAMBDA x : x \in KnownPermissions))

\* lines 442-471: the permission list, None when the load fails
PermissionsOf(v) ==
    IF v.t = "absent" THEN Some(<<>>)
    ELSE IF v.t # "array" THEN None
    ELSE IF \E i \in 1..Len(v.items) :
                v.items[i].t # "string" \/ ~IsSome(PermissionFromStr(v.items[i].s))
    THEN None
    ELSE Some([i \in 1..Len(v.items) |-> Unwrap(PermissionFromStr(v.items[i].s))])

\* lines 556-586: the whitelist, None when the load fails
WhitelistOf(v) ==
    IF v.t = "absent" THEN Some(<<>>)
    ELSE IF v.t # "array" THEN None
    ELSE IF \E i \in 1..Len(v.items) : v.items[i].t # "string" \/ ~v.items[i].ok
    THEN None
    ELSE Some([i \in 1..Len(v.items) |-> v.items[i].re])

\* return Err(..) at the named step of the loop body
RuleErr(step, e) == [err |-> Some(e), step |-> step, rule |-> None]

\* the label is checked before the regex
LoadRuleLabelFirst(rule) ==
    IF rule.t # "object" THEN RuleErr("object", "ParseError")
    ELSE IF ObjectLen(rule) < 4 \/ ObjectLen(rule) > 8 THEN RuleErr("len", "ParseError")
    ELSE LET regex == Get(rule, "regex")
             max_sdk == Get(rule, "max_sdk")
             permissions == PermissionsOf(Get(rule, "permissions"))
             forward_check == Get(rule, "forward_check")
             label == Get(rule, "label")
             description == Get(rule, "description")
             criticity == Get(rule, "criticity")
             whitelist == WhitelistOf(Get(rule, "whitelist"))
         IN IF label.t # "string" THEN RuleErr("label", "ParseError")
            ELSE IF regex.t # "string" \/ ~regex.ok THEN RuleErr("regex", "ParseError")
            ELSE IF max_sdk.t \notin {"u64", "absent"} THEN RuleErr("max_sdk", "ParseError")
            ELSE IF ~IsSome(permissions) THEN RuleErr("permissions", "ParseError")
            ELSE IF forward_check.t \notin {"string", "absent"}
            THEN RuleErr("forward_check", "ParseError")
            ELSE IF /\ forward_check.t = "string"
                    /\ \/ PlaceholderMissing(CaptureNames(regex.re), forward_check.s)
                       \/ Fc2WithoutFc1(CaptureNames(regex.re))
            THEN RuleErr("forward_check", "ParseError")
            ELSE IF label.t # "string" THEN RuleErr("label", "ParseError")
            ELSE IF description.t # "string" THEN RuleErr("description", "ParseError")
            ELSE IF criticity.t # "string" THEN RuleErr("criticity", "ParseError")
            ELSE IF ~IsSome(CriticityFromStr(criticity.s))
            THEN RuleErr("criticity", CriticityError)
            ELSE IF ~IsSome(whitelist) THEN RuleErr("whitelist", "ParseError")
            ELSE [err |-> None, step |-> "push",
                  rule |-> Some(RuleOf(regex.re,
                                       Unwrap(permissions),
                                       IF forward_check.t = "string"
                                       THEN Some(forward_check.s) ELSE None,
                                       IF max_sdk.t = "u64" THEN Some(AsI32(max_sdk.n)) ELSE None,
                                       label.s,
                                       description.s,
                                       Unwrap(CriticityFromStr(criticity.s)),
                                       Unwrap(whitelist)))]

\* lines 401-597: one turn of the loop over the array, up to the push
LoadRule(rule) ==
    IF rule.t # "object" THEN RuleErr("object", "ParseError")
    ELSE IF ObjectLen(rule) < 4 \/ ObjectLen(rule) > 8 THEN RuleErr("len", "ParseError")
    ELSE LET regex == Get(rule, "regex")
             max_sdk == Get(rule, "max_sdk")
             permissions == PermissionsOf(Get(rule, "permissions"))
             forward_check == Get(rule, "forward_check")
             label == Get(rule, "label")
             description == Get(rule, "description")
             criticity == Get(rule, "criticity")
             whitelist == WhitelistOf(Get(rule, "whitelist"))
         IN IF regex.t # "string" \/ ~regex.ok THEN RuleErr("regex", "ParseError")
            ELSE IF max_sdk.t \notin {"u64", "absent"} THEN RuleErr("max_sdk", "ParseError")
            ELSE IF ~IsSome(permissions) THEN RuleErr("permissions", "ParseError")
            ELSE IF forward_check.t \notin {"string", "absent"}
            THEN RuleErr("forward_check", "ParseError")
            ELSE IF /\ forward_check.t = "string"
                    /\ \/ PlaceholderMissing(CaptureNames(regex.re), forward_check.s)
                       \/ Fc2WithoutFc1(CaptureNames(regex.re))
            THEN RuleErr("forward_check", "ParseError")
            ELSE IF label.t # "string" THEN RuleErr("label", "ParseError")
            ELSE IF description.t # "string" THEN RuleErr("description", "ParseError")
            ELSE IF criticity.t # "string" THEN RuleErr("criticity", "ParseError")
            ELSE IF ~IsSome(CriticityFromStr(criticity.s))
            THEN RuleErr("criticity", CriticityError)
            ELSE IF ~IsSome(whitelist) THEN RuleErr("whitelist", "ParseError")
            ELSE [err |-> None, step |-> "push",
                  rule |-> Some(RuleOf(regex.re,
                                       Unwrap(permissions),
                                       IF forward_check.t = "string"
                                       THEN Some(forward_check.s) ELSE None,
                                       IF max_sdk.t = "u64" THEN Some(AsI32(max_sdk.n)) ELSE None,
                                       label.s,
                                       description.s,
                                       Unwrap(CriticityFromStr(criticity.s)),
                                       Unwrap(whitelist)))]

\* the new rule goes to the front of the vector
PushFront(rules, rule) == <<rule>> \o rules

\* line 588: rules.push(..)
Push(rules, rule) == Append(rules, rule)

\* lines 377-600: the loop over the array from element i on; the vector is
\* dropped when a turn returns Err
RECURSIVE LoadLoop(_, _, _)
LoadLoop(items, i, rules) ==
    IF i > Len(items) THEN [err |-> None, step |-> "ok", index |-> 0, rules |-> rules]
    ELSE LET r == LoadRule(items[i])
         IN IF IsSome(r.err)
            THEN [err |-> r.err, step |-> r.step, index |-> i, rules |-> <<>>]
            ELSE LoadLoop(items, i + 1, Push(rules, Unwrap(r.rule)))

\* lines 364-601: the file is opened and parsed, then checked
load_rules(file) ==
    IF file.t = "nofile" THEN [err |-> Some("IO"), step |-> "open", index |-> 0, rules |-> <<>>]
    ELSE IF file.t = "invalid"
    THEN [err |-> Some("JSON"), step |-> "from_reader", index |-> 0, rules |-> <<>>]
    ELSE IF file.t # "array"
    THEN [err |-> Some("ParseError"), step |-> "array", index |-> 0, rules |-> <<>>]
    ELSE LoadLoop(file.items, 1, <<>>)

\* the catalog file that holds the rules of c: a number n < 2^31 is written
\* as its limbs
ToU64(n) == <<0, 0, n \div Limb, n % Limb>>

RuleJson(rule) ==
    JObject([k \in Keys |->
                CASE k = "regex" -> JPattern(rule.regex)
                  [] k = "max_sdk" ->
                      IF IsSome(rule.max_sdk) THEN JU64(ToU64(Unwrap(rule.max_sdk))) ELSE JAbsent
                  [] k = "permissions" ->
                      IF rule.permissions = <<>> THEN JAbsent
                      ELSE JArray([i \in 1..Len(rule.permissions) |->
                                      JString(<<rule.permissions[i]>>)])
                  [] k = "forward_check" ->
                      IF IsSome(rule.forward_check) THEN JString(Unwrap(rule.forward_check))
                      ELSE JAbsent
                  [] k = "label" -> JString(rule.label)
                  [] k = "description" -> JString(rule.description)
                  [] k = "criticity" -> JString(<<rule.criticity>>)
                  [] k = "whitelist" ->
                      IF rule.whitelist = <<>> THEN JAbsent
                      ELSE JArray([i \in 1..Len(rule.whitelist) |->
                                      JPattern(rule.whitelist[i])])],
            0)

JsonFile(t, items) == [t |-> t, items |-> items]
CatalogJson(c) == JsonFile("array", [i \in 1..Len(c) |-> RuleJson(c[i])])

\* -------------------------------------------------------- add_files_to_vec
\* What is under <dist_folder>/<app_package>: a directory is a record with
\* its entries in the order read_dir gives them.  A name is a sequence of
\* tokens, the dot one of them; a path is a sequence of names.  kind is
\* "file", "dir", "entry_err" (the iterator yields Err) or "type_err"
\* (file_type() fails); id is the place of a file in fs
File(name, id) == [kind |-> "file", name |-> name, id |-> id, readable |-> TRUE, entries |-> <<>>]
Dir(name, entries) ==
    [kind |-> "dir", name |-> name, id |-> 0, readable |-> TRUE, entries |-> entries]
UnreadableDir(name) ==
    [kind |-> "dir", name |-> name, id |-> 0, readable |-> FALSE, entries |-> <<>>]
EntryErr == [kind |-> "entry_err", name |-> <<>>, id |-> 0, readable |-> TRUE, entries |-> <<>>]
TypeErr(name) ==
    [kind |-> "type_err", name |-> name, id |-> 0, readable |-> TRUE, entries |-> <<>>]

\* Path::extension: what follows the last dot of the name, None when the
\* name has no dot or only starts with one
Extension(name) ==
    LET dots == {i \in 2..Len(name) : name[i] = "."}
    IN IF dots = {} THEN None
       ELSE Some(SubSeq(name, (CHOOSE i \in dots : \A j \in dots : j <= i) + 1, Len(name)))

\* the subtree smali is walked like any other
ExcludedPathNoSmali(path) ==
    path \in {<<<<"classes">>, <<"android">>>>,
              <<<<"classes">>, <<"com">>, <<"google">>, <<"android">>, <<"gms">>>>}

\* lines 274-278: the subtrees that are not walked
ExcludedPath(path) ==
    path \in {<<<<"classes">>, <<"android">>>>,
              <<<<"classes">>, <<"com">>, <<"google">>, <<"android">>, <<"gms">>>>,
              <<<<"smali">>>>}

\* line 297: the entry is a directory to walk
Descend(f) == f.kind = "dir" /\ f.name # <<"original">>

\* the generated resource classes are pushed like any other file
EligibleAnyName(f) ==
    /\ IsSome(Extension(f.name))
    /\ Unwrap(Extension(f.name)) \in {<<"xml">>, <<"java">>}

\* lines 305-313: the entry is pushed
Eligible(f) ==
    /\ IsSome(Extension(f.name))
    /\ f.name # <<"AndroidManifest", ".", "xml">>
    /\ f.name # <<"R", ".", "java">>
    /\ f.name[1] # "R$"
    /\ Unwrap(Extension(f.name)) \in {<<"xml">>, <<"java">>}

\* the result of a call: the vector, whether Err is returned, and how many
\* warnings the call printed
Walked(vec, err, warned) == [vec |-> vec, err |-> err, warned |-> warned]

\* lines 270-317: add_files_to_vec on the directory dir at the relative path
\* path, and its loop over the entries es from entry i on; try! hands an Err
\* of read_dir, of file_type() or of the recursive call to the caller
RECURSIVE WalkEntries(_, _, _, _), add_files_to_vec(_, _, _)
WalkEntries(path, es, i, vec) ==
    IF i > Len(es) THEN Walked(vec, FALSE, 0)
    ELSE LET f == es[i]
         IN IF f.kind = "entry_err" THEN Walked(vec, TRUE, 1)
            ELSE IF f.kind = "type_err" THEN Walked(vec, TRUE, 0)
            ELSE IF Descend(f)
            THEN LET r == add_files_to_vec(Append(path, f.name), f, vec)
                 IN IF r.err THEN r ELSE WalkEntries(path, es, i + 1, r.vec)
            ELSE IF Eligible(f) THEN WalkEntries(path, es, i + 1, Append(vec, f.id))
            ELSE WalkEntries(path, es, i + 1, vec)

add_files_to_vec(path, dir, vec) ==
    IF ExcludedPath(path) THEN Walked(vec, FALSE, 0)
    ELSE IF ~dir.readable THEN Walked(vec, TRUE, 0)
    ELSE WalkEntries(path, dir.entries, 1, vec)

\* a project root that holds the files of q and nothing else
FlatDir(q) == Dir(<<>>, [i \in 1..Len(q) |-> File(<<ToString(q[i]), ".", "java">>, q[i])])

\* ------------------------------------------------------------------- state
VARIABLES
    rules_json,     \* what the file config.get_rules_json() holds
    rules,          \* the loaded catalog (Arc<Vec<Rule>>), empty before the load
    manifest,       \* Option<Manifest>
    threads,        \* config.get_threads()
    bench,          \* config.is_bench()
    dist,           \* the directory <dist_folder>/<app_package>
    benchmarks,     \* the names of the benchmarks handed to Results
    verbose,        \* config.is_verbose()
    fs,             \* file id -> [text, io, strip]: what the file system holds
    enumerated,     \* the file list built by the walker (line 38)
    files,          \* the shared work queue (Mutex<Vec<DirEntry>>)
    total_files,
    filesLock,      \* holder of the queue mutex, 0 when free
    found_vulns,    \* the sink (Mutex<Vec<Vulnerability>>)
    sinkLock,       \* holder of the sink mutex, 0 when free
    sinkPoisoned,   \* a thread panicked while holding the sink mutex
    wpc,            \* worker -> position in the worker closure
    cur,            \* worker -> the file it popped
    plan,           \* worker -> what analyze_file still has to do on cur
    mpc,            \* position of the thread running code_analysis
    spawned,        \* handles created so far
    joined,         \* handles joined so far
    last_print,
    printed,        \* the numbers printed by the progress loop
    results,        \* vulnerabilities handed to Results
    warnings,       \* bag of the warnings printed
    popCount,       \* file id -> how often it was popped
    analysed,       \* file id -> the workers that called analyze_file on it
    returned,       \* file id -> "none", or the result of analyze_file
    load_exit       \* where load_rules returned: array index and step

inputs == <<rules_json, manifest, threads, verbose, bench, fs, dist>>
loaded == <<rules, enumerated, total_files, benchmarks>>
queue == <<files, filesLock, popCount>>
sink == <<found_vulns, sinkLock, sinkPoisoned>>
worker == <<wpc, cur, plan>>
progress == <<last_print, printed>>
main == <<mpc, spawned, joined, results>>
history == <<analysed, returned, load_exit>>
vars == <<inputs, loaded, queue, sink, worker, progress, main, warnings, history>>

Workers == 1..MaxThreads
MainThread == MaxThreads + 1

Warning(kind, file, rule, w) == [kind |-> kind, file |-> file, rule |-> rule, worker |-> w]
Warn(wn) == warnings (+) SetToBag({wn})

\* the file lists the walker can produce from the ids in S: no id twice
FileLists(S) ==
    {q \in UNION {[1..n -> S] : n \in 0..MaxFiles} :
        \A i, j \in 1..Len(q) : i # j => q[i] # q[j]}

\* ------------------------------------------------------------------ inputs
FilePool ==
    <<[text |-> <<"b", "a">>, io |-> "ok", strip |-> TRUE],
      [text |-> <<"a", "b">>, io |-> "ok", strip |-> FALSE],
      [text |-> <<"a">>, io |-> "utf8", strip |-> TRUE],
      [text |-> <<"a", "(", "a">>, io |-> "ok", strip |-> TRUE]>>

\* the catalogs and manifests of the runs: the forward-check rules have no
\* gate, so one manifest is enough for them
Catalogs == {<<RuleWhite, RuleSdk, RulePerm>>, <<RuleFcB, RuleFc>>}

Runs ==
    {<<c, m>> \in Catalogs \X ManifestPool :
         /\ \A i \in 1..Len(c) : c[i].forward_check = None
         /\ m # Some([min_sdk |-> 0, permissions |-> {}])}
        \cup {<<c, None>> : c \in Catalogs}

InitState ==
    /\ rules = <<>>
    /\ enumerated = <<>>
    /\ files = <<>>
    /\ total_files = 0
    /\ benchmarks = <<>>
    /\ filesLock = 0
    /\ found_vulns = <<>>
    /\ sinkLock = 0
    /\ sinkPoisoned = FALSE
    /\ wpc = [w \in Workers |-> "unspawned"]
    /\ cur = [w \in Workers |-> 0]
    /\ plan = [w \in Workers |-> <<>>]
    /\ mpc = "load"
    /\ spawned = 0
    /\ joined = 0
    /\ last_print = 0
    /\ printed = <<>>
    /\ results = <<>>
    /\ warnings = EmptyBag
    /\ popCount = [f \in DOMAIN fs |-> 0]
    /\ analysed = [f \in DOMAIN fs |-> <<>>]
    /\ returned = [f \in DOMAIN fs |-> "none"]
    /\ load_exit = [index |-> 0, step |-> "none"]

InitRun(q) == dist = FlatDir(q) /\ InitState

\* the configurations of the runs (threads, verbose, bench): the progress
\* loop of verbose mode only reads the length of the queue, so it runs next
\* to one worker here
Configs == {<<t, FALSE, FALSE>> : t \in 1..MaxThreads} \cup {<<1, TRUE, TRUE>>}

\* the state of code_analysis at line 21, with a catalog file that loads
Init ==
    /\ \E run \in Runs : rules_json = CatalogJson(run[1]) /\ manifest = run[2]
    /\ \E c \in Configs : threads = c[1] /\ verbose = c[2] /\ bench = c[3]
    /\ fs = FilePool
    /\ \E q \in FileLists(DOMAIN FilePool) : InitRun(q)

\* one worker, one file of any text, one rule
InitEval ==
    /\ rules_json \in {CatalogJson(<<r>>) : r \in RulePool}
    /\ manifest \in ManifestPool
    /\ threads = 1
    /\ verbose = TRUE
    /\ bench = TRUE
    /\ fs \in {<<[text |-> t, io |-> "ok", strip |-> b]>> : t \in Texts, b \in BOOLEAN}
    /\ InitRun(<<1>>)

\* ---- the catalog files of the loader runs
\* a rule object with the four required keys: regex a, criticity high
Element(label) ==
    RuleJson(RuleOf(Lit(<<"a">>), <<>>, None, None, <<label>>, <<"description">>, "high", <<>>))

With(rule, key, v) == [rule EXCEPT !.keys[key] = v]
Extra(rule, n) == [rule EXCEPT !.extra = n]

\* (?P<fc2>[ab]), a capture fc2 without fc1
Fc2Only == [pre |-> "none", cls |-> <<{"a", "b"}>>, fc1 |-> <<>>, fc2 |-> <<1, 1>>]

\* the numbers written as max_sdk: 0, 2^31 - 1, 2^31, 2^32, 2^32 + 1, 2^64 - 1
MaxSdkPool ==
    {<<0, 0, 0, 0>>, <<0, 0, 32767, 65535>>, <<0, 0, 32768, 0>>, <<0, 1, 0, 0>>,
     <<0, 1, 0, 1>>, <<65535, 65535, 65535, 65535>>}

\* rule objects that name every key, use every optional key, and differ in
\* their labels
ElementsByTheBook ==
    {Element("one"),
     With(Element("two"), "regex", JPattern(Lit(<<"b">>))),
     With(Element("upper"), "criticity", JString(<<"HIGH">>)),
     RuleJson(RuleWhite), RuleJson(RulePerm), RuleJson(RuleSdk), RuleJson(RuleFc),
     RuleJson(RuleFc21), RuleJson(RuleFc2),
     RuleJson(RuleOf(RuleFc.regex, <<"INTERNET">>, Some(<<"{fc1}">>), Some(3), <<"full">>,
                     <<"description">>, "low", <<Lit(<<"b">>)>>))}
        \cup {With(Element("sdk"), "max_sdk", JU64(n)) : n \in MaxSdkPool}

\* rule objects with an unknown key, or with captures and no forward check
ElementsOffTheBook ==
    {Extra(Element("extra"), 1),
     Extra(With(Element("extra"), "label", JAbsent), 1),
     Extra(Element("extra"), 5),
     With(Element("fc2"), "regex", JPattern(Fc2Only)),
     With(Element("fc1"), "regex", JPattern(RuleFc.regex))}

\* array elements with one defect each
ElementsBroken ==
    {JNotObject,
     With(Element("three"), "description", JAbsent),
     With(Element("regex"), "regex", JOther),
     With(Element("regex"), "regex", JString(<<"(">>)),
     With(Element("sdk"), "max_sdk", JOther),
     With(Element("perm"), "permissions", JOther),
     With(Element("perm"), "permissions", JArray(<<JOther>>)),
     With(Element("perm"), "permissions", JArray(<<JString(<<"INTERNET">>), JString(<<"FLY">>)>>)),
     With(Element("fc"), "forward_check", JOther),
     With(With(Element("fc"), "regex", JPattern(Fc2Only)), "forward_check", JString(<<"{fc2}">>)),
     With(With(Element("fc"), "regex", JPattern(RuleFc.regex)), "forward_check", JString(<<"a">>)),
     With(With(Element("fc"), "regex", JPattern(RuleFc21.regex)), "forward_check",
          JString(<<"{fc1}">>)),
     With(Element("label"), "label", JOther),
     With(Element("description"), "description", JOther),
     With(Element("criticity"), "criticity", JOther),
     With(Element("criticity"), "criticity", JString(<<"severe">>)),
     With(Element("white"), "whitelist", JOther),
     With(Element("white"), "whitelist", JArray(<<JOther>>)),
     With(Element("white"), "whitelist", JArray(<<JPattern(Lit(<<"b">>)), JString(<<"(">>)>>))}

ElementPool == ElementsByTheBook \cup ElementsOffTheBook \cup ElementsBroken

\* the catalog files: no file, no JSON, no array, or an array of elements
RulesJsonPool ==
    {JsonFile(t, <<>>) : t \in {"nofile", "invalid", "other"}}
        \cup {JsonFile("array", items) :
                 items \in UNION {[1..n -> ElementPool] : n \in 0..MaxRules}}

\* one worker, one file, any catalog file
\* the checks of one turn of the loop of load_rules that an element can fail
Defects ==
    {"object", "len", "regex", "max_sdk", "permissions", "forward_check", "label",
     "description", "criticity", "whitelist"}

\* the element one with the defects D: not an object; 5 unknown keys next
\* to its own; a regex that does not compile; an unknown criticity; a value
\* that is neither string, number nor array for the other keys
Broken(D) ==
    IF "object" \in D THEN JNotObject
    ELSE JObject([k \in Keys |->
                     IF k \notin D THEN Get(Element("one"), k)
                     ELSE IF k = "regex" THEN JString(<<"(">>)
                     ELSE IF k = "criticity" THEN JString(<<"severe">>)
                     ELSE JOther],
                 IF "len" \in D THEN 5 ELSE 0)

\* the elements with up to MaxDefects defects
DefectElements == {Broken(D) : D \in {S \in SUBSET Defects : Cardinality(S) <= MaxDefects}}

\* the state of code_analysis at line 21 with a catalog of one or two
\* elements that have several defects each
InitOrder ==
    /\ rules_json \in {JsonFile("array", <<e>>) : e \in DefectElements}
                         \cup {JsonFile("array", <<d, e>>) : d, e \in DefectElements}
    /\ manifest = None
    /\ threads = 1
    /\ verbose = TRUE
    /\ bench = TRUE
    /\ fs = <<[text |-> <<"a", "b">>, io |-> "ok", strip |-> TRUE]>>
    /\ InitRun(<<1>>)

\* the state of code_analysis at line 21 with a forward-check rule followed
\* by another rule and two files, the first with any text
InitBreak ==
    /\ rules_json = CatalogJson(<<RuleFc, RuleWhite>>)
    /\ manifest = None
    /\ threads = 1
    /\ verbose = TRUE
    /\ bench = FALSE
    /\ fs \in {<<[text |-> t, io |-> "ok", strip |-> TRUE],
                 [text |-> u, io |-> "ok", strip |-> TRUE]>> :
                   t \in Texts, u \in {<<"a">>, <<"(">>}}
    /\ \E q \in {<<1, 2>>, <<2, 1>>} : InitRun(q)

\* the state of code_analysis at line 21 in verbose mode with any number of
\* workers and a queue of up to MaxQueue files; the file popped first has a
\* finding
InitProgress ==
    /\ rules_json = CatalogJson(<<RulePair>>)
    /\ manifest = None
    /\ threads \in 1..MaxThreads
    /\ verbose = TRUE
    /\ bench = FALSE
    /\ fs = [f \in 1..MaxQueue |->
                 [text |-> IF f = 1 THEN <<"a", "b">> ELSE <<>>, io |-> "ok", strip |-> TRUE]]
    /\ \E n \in 0..MaxQueue : InitRun([i \in 1..n |-> n + 1 - i])

\* ---- the project trees of the walk
\* what <dist_folder>/<app_package> may hold: files to queue, nested
\* directories, the subtrees left out, directories and entries that cannot
\* be read, and the file names left out
EntryPool ==
    <<File(<<"a", ".", "java">>, 1),
      File(<<"b", ".", "xml">>, 2),
      Dir(<<"sub">>, <<File(<<"c", ".", "java">>, 3),
                       Dir(<<"deep">>, <<File(<<"d", ".", "xml">>, 4)>>)>>),
      UnreadableDir(<<"bad">>),
      Dir(<<"part">>, <<File(<<"e", ".", "java">>, 5), EntryErr,
                        File(<<"f", ".", "java">>, 6)>>),
      Dir(<<"odd">>, <<TypeErr(<<"x">>), File(<<"g", ".", "java">>, 7)>>),
      Dir(<<"classes">>,
          <<Dir(<<"android">>, <<File(<<"h", ".", "java">>, 8)>>),
            Dir(<<"com">>, <<Dir(<<"google">>, <<Dir(<<"android">>,
                <<Dir(<<"gms">>, <<File(<<"i", ".", "java">>, 9)>>),
                  File(<<"j", ".", "java">>, 10)>>)>>)>>),
            File(<<"k", ".", "java">>, 11)>>),
      Dir(<<"smali">>, <<File(<<"l", ".", "java">>, 12)>>),
      Dir(<<"original">>, <<File(<<"m", ".", "java">>, 13)>>),
      Dir(<<"lib">>, <<Dir(<<"original">>, <<File(<<"n", ".", "xml">>, 14)>>),
                       Dir(<<"smali">>, <<File(<<"o", ".", "java">>, 15)>>)>>),
      File(<<"AndroidManifest", ".", "xml">>, 16),
      File(<<"R", ".", "java">>, 17),
      File(<<"R$", "layout", ".", "java">>, 18),
      File(<<"notes", ".", "txt">>, 19),
      File(<<"Main", ".", "JAVA">>, 20),
      File(<<"Makefile">>, 21),
      Dir(<<"gen">>, <<File(<<"R", ".", "java">>, 22), File(<<"S", ".", "java">>, 23)>>),
      File(<<".", "java">>, 24)>>

WalkFiles == 24

\* the roots: up to MaxEntries different entries of the pool in any order
Roots ==
    UNION {{Dir(<<>>, [i \in 1..n |-> EntryPool[p[i]]]) :
                p \in {q \in [1..n -> DOMAIN EntryPool] :
                           \A i, j \in 1..n : i # j => q[i] # q[j]}} : n \in 1..MaxEntries}

\* the state of code_analysis at line 21 over a project tree: every file
\* holds a match of the one rule of the catalog
InitWalk ==
    /\ rules_json = CatalogJson(<<RulePair>>)
    /\ manifest = None
    /\ threads = 1
    /\ verbose = TRUE
    /\ bench = FALSE
    /\ fs = [f \in 1..WalkFiles |-> [text |-> <<"a", "b">>, io |-> "ok", strip |-> TRUE]]
    /\ dist \in Roots
    /\ InitState

InitLoad ==
    /\ rules_json \in RulesJsonPool
    /\ manifest = Some([min_sdk |-> 1, permissions |-> {"INTERNET", "CAMERA"}])
    /\ threads = 1
    /\ verbose = TRUE
    /\ bench = TRUE
    /\ fs = <<[text |-> <<"a", "b">>, io |-> "ok", strip |-> TRUE]>>
    /\ InitRun(<<1>>)

\* -------------------------------------------------------- tests (608-666)
\* lines 608-666: check_match of the tests: "true", "false", or "panic" when
\* the substituted forward check does not compile (Regex::new(..).unwrap())
check_match(text, rule) ==
    IF ~IsMatch(rule.regex, text) THEN "false"
    ELSE IF \E k \in 1..Len(rule.whitelist) : IsMatch(rule.whitelist[k], text) THEN "false"
    ELSE IF ~IsSome(rule.forward_check) THEN "true"
    ELSE LET r == Substitute(Unwrap(rule.forward_check), Unwrap(Captures(rule.regex, text)))
         IN IF ~CompileOk(r) THEN "panic"
            ELSE IF IsMatch(RegexNew(r), text) THEN "true"
            ELSE "false"

\* ----------------------------------------------------------- worker (68-93)
\* the last file is read but stays in the queue
PopRestKeep(q) == q

\* the popped file goes back to the front of the queue
PopRestRequeue(q) == <<q[Len(q)]>> \o SubSeq(q, 1, Len(q) - 1)

\* Vec::pop: what is left of the queue
PopRest(q) == SubSeq(q, 1, Len(q) - 1)

\* line 71: thread_files.lock().unwrap()
\* the guard outlives the block that took the lock
KeepGuard(holder) == holder

\* lines 73, 198, 246: the guard goes out of scope at the end of the block
\* that locked the mutex, also when that block unwinds: nobody holds it
DropGuard(holder) == 0

WLockFiles(w) ==
    /\ wpc[w] = "lock_files"
    /\ filesLock = 0
    /\ filesLock' = w
    /\ wpc' = [wpc EXCEPT ![w] = "pop"]
    /\ UNCHANGED <<inputs, loaded, files, popCount, sink, cur, plan, progress, main,
                   warnings, history>>

\* lines 72-74, 90: files.pop(), the guard is dropped, break on None
WPop(w) ==
    /\ wpc[w] = "pop"
    /\ filesLock' = DropGuard(w)
    /\ IF files = <<>>
       THEN /\ wpc' = [wpc EXCEPT ![w] = "done"]
            /\ UNCHANGED <<files, popCount, cur>>
       ELSE /\ cur' = [cur EXCEPT ![w] = files[Len(files)]]
            /\ files' = PopRest(files)
            /\ popCount' = [popCount EXCEPT ![files[Len(files)]] = @ + 1]
            /\ wpc' = [wpc EXCEPT ![w] = "open"]
    /\ UNCHANGED <<inputs, loaded, sink, plan, progress, main, warnings, history>>

\* analyze_file between two locks of the sink, on what is left to do: the
\* warnings of forward checks that do not compile (lines 215-226) are printed,
\* then the worker stands before the next push, has panicked on the unwrap of
\* line 201, or analyze_file has returned Ok and the worker loops (line 69)
RECURSIVE SkipWarnings(_)
SkipWarnings(p) ==
    IF p # <<>> /\ p[1].kind = "warn" THEN SkipWarnings(Tail(p)) ELSE p

RECURSIVE ForwardCheckWarnings(_, _, _)
ForwardCheckWarnings(p, file, w) ==
    IF p # <<>> /\ p[1].kind = "warn"
    THEN SetToBag({Warning("forward_check", file, p[1].rule, w)})
             (+) ForwardCheckWarnings(Tail(p), file, w)
    ELSE EmptyBag

Evaluate(w, file, p) ==
    LET rest == SkipWarnings(p)
    IN /\ plan' = [plan EXCEPT ![w] = rest]
       /\ warnings' = warnings (+) ForwardCheckWarnings(p, file, w)
       /\ wpc' = [wpc EXCEPT ![w] = IF rest = <<>> THEN "lock_files"
                                    ELSE IF rest[1].kind = "panic" THEN "panicked"
                                    ELSE "lock_sink"]
       /\ returned' = IF rest = <<>> THEN [returned EXCEPT ![file] = "ok"] ELSE returned

\* the bytes that are not UTF-8 are replaced and the text is analysed
ReadToStringLossy(file) == Some(file.text)

\* lines 152-154: File::open and read_to_string; Err when the file cannot be
\* opened or read (io = "err") or its bytes are not valid UTF-8 (io = "utf8")
ReadToString(file) == IF file.io = "ok" THEN Some(file.text) ELSE None

\* lines 76-88 and 152-252: analyze_file opens and reads the file; on an
\* error (open, read, not UTF-8) it returns Err and the worker warns;
\* otherwise it evaluates the rules up to the first push
WOpen(w) ==
    /\ wpc[w] = "open"
    /\ analysed' = [analysed EXCEPT ![cur[w]] = Append(@, w)]
    /\ IF ~IsSome(ReadToString(fs[cur[w]]))
       THEN /\ returned' = [returned EXCEPT ![cur[w]] = "err"]
            /\ warnings' = Warn(Warning("file", cur[w], 0, w))
            /\ wpc' = [wpc EXCEPT ![w] = "lock_files"]
            /\ UNCHANGED plan
       ELSE Evaluate(w, cur[w],
                     AnalyzeEvents(1, rules, Unwrap(ReadToString(fs[cur[w]])), manifest))
    /\ UNCHANGED <<inputs, loaded, queue, sink, cur, progress, main, load_exit>>

\* lines 183, 231: results.lock().unwrap() panics when the mutex is poisoned
WLockSink(w) ==
    /\ wpc[w] = "lock_sink"
    /\ sinkLock = 0
    /\ IF sinkPoisoned
       THEN /\ wpc' = [wpc EXCEPT ![w] = "panicked"]
            /\ UNCHANGED sinkLock
       ELSE /\ sinkLock' = w
            /\ wpc' = [wpc EXCEPT ![w] = "push"]
    /\ UNCHANGED <<inputs, loaded, queue, found_vulns, sinkPoisoned, cur, plan, progress,
                   main, warnings, history>>

Vuln(file, ev) ==
    [file |-> file, rule |-> ev.rule, start_line |-> ev.start_line, end_line |-> ev.end_line,
     s |-> ev.s, e |-> ev.e, ps |-> ev.ps, pe |-> ev.pe]

\* lines 184-198, 232-247: the finding is built and pushed with the sink
\* locked; strip_prefix(..).unwrap() panics when the path does not start with
\* the project root, which poisons the mutex.  After the push the guard is
\* dropped and the evaluation goes on to the next push
WPush(w) ==
    /\ wpc[w] = "push"
    /\ sinkLock' = DropGuard(w)
    /\ IF ~fs[cur[w]].strip
       THEN /\ sinkPoisoned' = TRUE
            /\ wpc' = [wpc EXCEPT ![w] = "panicked"]
            /\ UNCHANGED <<found_vulns, plan, warnings, returned>>
       ELSE /\ found_vulns' = Append(found_vulns, Vuln(cur[w], plan[w][1]))
            /\ Evaluate(w, cur[w], Tail(plan[w]))
            /\ UNCHANGED sinkPoisoned
    /\ UNCHANGED <<inputs, loaded, queue, cur, progress, main, analysed, load_exit>>

\* ------------------------------------------------------------ code_analysis
\* the facade stops there
AfterLoadGoOn(r) == "walk"

\* lines 23-31: the facade returns when load_rules fails
AfterLoad(r) == IF IsSome(r.err) THEN "returned" ELSE "walk"

\* lines 22-35: the catalog is loaded; a failure is printed (the warning of
\* load_rules when it has one, then the error of the facade)
MLoadRules ==
    /\ mpc = "load"
    /\ LET r == load_rules(rules_json)
       IN /\ rules' = r.rules
          /\ mpc' = AfterLoad(r)
          /\ warnings' =
                IF ~IsSome(r.err) THEN warnings
                ELSE warnings
                         (+) (IF r.step \in {"open", "from_reader"} THEN EmptyBag
                              ELSE SetToBag({Warning("rules", 0, r.index, MainThread)}))
                         (+) SetToBag({Warning("error", 0, 0, MainThread)})
          /\ benchmarks' = IF bench /\ AfterLoad(r) = "walk"
                           THEN Append(benchmarks, "Rule loading") ELSE benchmarks
          /\ load_exit' = [index |-> r.index, step |-> r.step]
    /\ UNCHANGED <<inputs, enumerated, total_files, queue, sink, worker, progress, spawned,
                   joined, results, analysed, returned>>

\* lines 37-58: the files to analyse are enumerated and become the queue;
\* when the walk returns Err the facade warns and goes on with the files
\* found so far
MWalk ==
    /\ mpc = "walk"
    /\ LET r == add_files_to_vec(<<>>, dist, <<>>)
       IN /\ enumerated' = r.vec
          /\ files' = r.vec
          /\ total_files' = Len(r.vec)
          /\ warnings' =
                warnings
                    (+) (IF r.warned > 0
                         THEN SetToBag({Warning("read_dir", 0, 0, MainThread)}) ELSE EmptyBag)
                    (+) (IF r.err
                         THEN SetToBag({Warning("walk", 0, 0, MainThread)}) ELSE EmptyBag)
    /\ mpc' = "spawn"
    /\ UNCHANGED <<inputs, rules, benchmarks, filesLock, popCount, sink, worker, progress,
                   spawned, joined, results, history>>

\* lines 60-95: one thread::spawn; after the last one the facade goes on
MSpawn ==
    /\ mpc = "spawn"
    /\ spawned < threads
    /\ spawned' = spawned + 1
    /\ wpc' = [wpc EXCEPT ![spawned + 1] = "lock_files"]
    /\ mpc' = IF spawned + 1 < threads THEN "spawn"
              ELSE IF verbose THEN "progress_cond" ELSE "join"
    /\ UNCHANGED <<inputs, loaded, queue, sink, cur, plan, progress, joined, results,
                   warnings, history>>

\* lines 100-103: the loop condition reads the length under the lock (the
\* queue mutex is never poisoned: nothing can panic between lines 71 and 72)
MProgressCond ==
    /\ mpc = "progress_cond"
    /\ filesLock = 0
    /\ mpc' = IF Len(files) > 0 THEN "progress_body" ELSE "join"
    /\ UNCHANGED <<inputs, loaded, queue, sink, worker, progress, spawned, joined, results,
                   warnings, history>>

\* the files that are left are taken for the files that are done
doneIsLeft(total, left) == left

\* line 109: let done = total_files - left
done(total, left) == total - left

\* lines 105-113
MProgressBody ==
    /\ mpc = "progress_body"
    /\ filesLock = 0
    /\ LET left == Len(files)
           d == done(total_files, left)
       IN IF d - last_print > total_files \div 10
          THEN /\ last_print' = d
               /\ printed' = Append(printed, d)
          ELSE UNCHANGED <<last_print, printed>>
    /\ mpc' = "progress_cond"
    /\ UNCHANGED <<inputs, loaded, queue, sink, worker, spawned, joined, results,
                   warnings, history>>

\* join returns at once
FinishedOrNot(w) == TRUE

\* line 118: JoinHandle::join returns when the thread has returned or panicked
Finished(w) == wpc[w] \in {"done", "panicked"}

\* lines 117-123: join the next handle, warn when that worker panicked
MJoin ==
    /\ mpc = "join"
    /\ joined < spawned
    /\ Finished(joined + 1)
    /\ joined' = joined + 1
    /\ warnings' = IF wpc[joined + 1] = "panicked"
                   THEN Warn(Warning("join", 0, 0, joined + 1))
                   ELSE warnings
    /\ mpc' = IF joined + 1 < spawned THEN "join" ELSE "drain"
    /\ UNCHANGED <<inputs, loaded, queue, sink, worker, progress, spawned, results, history>>

\* lines 125-135: the benchmark of the analysis is recorded;
\* into_inner().unwrap() panics on a poisoned sink, otherwise every finding
\* goes to Results in the order of the sink, and the total is recorded
MDrain ==
    /\ mpc = "drain"
    /\ IF sinkPoisoned
       THEN /\ mpc' = "panicked"
            /\ benchmarks' = IF bench THEN Append(benchmarks, "File analysis") ELSE benchmarks
            /\ UNCHANGED results
       ELSE /\ results' = found_vulns
            /\ benchmarks' = IF bench
                             THEN benchmarks \o <<"File analysis", "Total code analysis">>
                             ELSE benchmarks
            /\ mpc' = "returned"
    /\ UNCHANGED <<inputs, rules, enumerated, total_files, queue, sink, worker, progress, spawned, joined,
                   warnings, history>>

Next ==
    \/ \E w \in Workers : WLockFiles(w)
    \/ \E w \in Workers : WPop(w)
    \/ \E w \in Workers : WOpen(w)
    \/ \E w \in Workers : WLockSink(w)
    \/ \E w \in Workers : WPush(w)
    \/ MLoadRules
    \/ MWalk
    \/ MSpawn
    \/ MProgressCond
    \/ MProgressBody
    \/ MJoin
    \/ MDrain

Spec == Init /\ [][Next]_vars

SpecEval == InitEval /\ [][Next]_vars

SpecLoad == InitLoad /\ [][Next]_vars

SpecWalk == InitWalk /\ [][Next]_vars

SpecBreak == InitBreak /\ [][Next]_vars

SpecProgress == InitProgress /\ [][Next]_vars

SpecOrder == InitOrder /\ [][Next]_vars

\* ------------------------------------------------------------------ claims
Findings(f, r) == SelectSeq(found_vulns, LAMBDA v : v.file = f /\ v.rule = r)

\* C1: every finding in the sink comes from a file and a rule such that the
\* rule's regex matches the file at the recorded primary span, no whitelist
\* regex of the rule matches the text of that span, max_sdk does not lie
\* below the manifest's minimum SDK, and the manifest holds every permission
\* the rule lists.
C1_EmissionRequiresAllConditions ==
    \A i \in 1..Len(found_vulns) :
        LET v == found_vulns[i]
            rule == rules[v.rule]
            code == fs[v.file].text
        IN /\ v.ps >= 0 /\ v.pe = v.ps + Len(rule.regex.cls)
           /\ MatchAt(rule.regex, code, v.ps)
           /\ \A k \in 1..Len(rule.whitelist) :
                  ~IsMatch(rule.whitelist[k], SubSeq(code, v.ps + 1, v.pe))
           /\ \/ manifest = None
              \/ rule.max_sdk = None
              \/ rule.max_sdk[1] >= manifest[1].min_sdk
           /\ \/ rule.permissions = <<>>
              \/ /\ manifest # None
                 /\ \A k \in 1..Len(rule.permissions) :
                        rule.permissions[k] \in manifest[1].permissions

\* the sink holds findings of a whitelist rule, of an SDK-gated rule and of a
\* permission-gated rule
C1_Witness ==
    /\ \E i \in 1..Len(found_vulns) : rules[found_vulns[i].rule].whitelist # <<>>
    /\ \E i \in 1..Len(found_vulns) : rules[found_vulns[i].rule].max_sdk # None
    /\ \E i \in 1..Len(found_vulns) : rules[found_vulns[i].rule].permissions # <<>>

\* C2: no file is popped from the queue twice and no file is analysed by two
\* workers or twice by one.
C2_EachFileOnce ==
    /\ \A f \in DOMAIN fs : popCount[f] <= 1 /\ Len(analysed[f]) <= 1
    /\ \A w1, w2 \in Workers :
           (w1 # w2 /\ cur[w1] # 0 /\ wpc[w1] \in {"open", "lock_sink", "push"}
                    /\ wpc[w2] \in {"open", "lock_sink", "push"}) => cur[w1] # cur[w2]

\* two workers have each analysed a file of their own and the queue is empty
C2_Witness ==
    /\ files = <<>>
    /\ \E f, g \in DOMAIN fs : f # g /\ analysed[f] = <<1>> /\ analysed[g] = <<2>>

\* the multiset of the elements of a sequence
BagOfSeq(q) ==
    [x \in {q[i] : i \in DOMAIN q} |-> Cardinality({i \in DOMAIN q : q[i] = x})]

\* what one worker pushes on the files of q, popped from the last to the
\* first: it stops in the file where it panics
RECURSIVE OneWorker(_)
OneWorker(q) ==
    IF q = <<>> THEN <<>>
    ELSE LET f == q[Len(q)]
             ev == IF fs[f].io = "ok"
                   THEN AnalyzeEvents(1, rules, fs[f].text, manifest)
                   ELSE <<>>
             panics == {i \in 1..Len(ev) : ev[i].kind = "panic"}
             upto == IF panics = {} THEN Len(ev)
                     ELSE CHOOSE i \in panics : \A j \in panics : i <= j
             pushed == SelectSeq(SubSeq(ev, 1, upto), LAMBDA x : x.kind = "push")
         IN [i \in 1..Len(pushed) |-> Vuln(f, pushed[i])]
                \o (IF panics = {} THEN OneWorker(PopRest(q)) ELSE <<>>)

\* C3: when code_analysis returns, Results holds the same multiset of
\* findings whatever the number of threads and the interleaving: the one a
\* single worker produces on the same catalog, files and manifest (stated
\* for file lists whose paths all start with the project root).
C3_SameFindingsForEveryThreadCount ==
    (mpc = "returned" /\ \A i \in 1..Len(enumerated) : fs[enumerated[i]].strip)
        => BagOfSeq(results) = BagOfSeq(OneWorker(enumerated))

C6_AllFilesAttempted ==
    (spawned = threads /\ \A w \in 1..threads : wpc[w] \in {"done", "panicked"})
        => /\ files = <<>>
           /\ \A i \in 1..Len(enumerated) : analysed[enumerated[i]] # <<>>

\* ---- the evaluator on the files whose analysis has returned Ok

\* neither gate closes the rule
GatesOpen(rule) ==
    /\ \/ manifest = None
       \/ rule.max_sdk = None
       \/ rule.max_sdk[1] >= manifest[1].min_sdk
    /\ \/ rule.permissions = <<>>
       \/ /\ manifest # None
          /\ \A k \in 1..Len(rule.permissions) : rule.permissions[k] \in manifest[1].permissions

\* some whitelist regex of the rule matches the text of the span m itself
HitWhitelisted(rule, code, m) ==
    \E k \in 1..Len(rule.whitelist) : IsMatch(rule.whitelist[k], SubSeq(code, m[1] + 1, m[2]))

\* the primary matches of the rule in code that the whitelist lets through
Surviving(rule, code) ==
    SelectSeq(FindIter(rule.regex, code), LAMBDA m : ~HitWhitelisted(rule, code, m))

FindingsAt(f, r, m) == SelectSeq(Findings(f, r), LAMBDA v : v.ps = m[1] /\ v.pe = m[2])

NewlinesBefore(code, i) == Cardinality({k \in 1..i : code[k] = "\n"})

\* C7: a primary match of a rule has no finding when a whitelist regex
\* matches the matched text; when none does, the gates are open and the rule
\* has no forward check, it has a finding once analyze_file has returned,
\* wherever the match lies among the primary matches of the rule.
C7_DiscardedIffWhitelistMatchesHit ==
    \A f \in DOMAIN fs : \A r \in 1..Len(rules) :
        LET code == fs[f].text
            ms == FindIter(rules[r].regex, code)
        IN \A j \in 1..Len(ms) :
               /\ HitWhitelisted(rules[r], code, ms[j]) => FindingsAt(f, r, ms[j]) = <<>>
               /\ (/\ ~HitWhitelisted(rules[r], code, ms[j])
                   /\ rules[r].forward_check = None
                   /\ GatesOpen(rules[r])
                   /\ returned[f] = "ok") => FindingsAt(f, r, ms[j]) # <<>>

\* the first primary match is discarded, a later one is reported, and a
\* whitelist regex matches the file outside the reported match
C7_Witness ==
    \E f \in DOMAIN fs : \E r \in 1..Len(rules) :
        LET code == fs[f].text
            ms == FindIter(rules[r].regex, code)
        IN /\ returned[f] = "ok" /\ Len(ms) >= 2
           /\ HitWhitelisted(rules[r], code, ms[1])
           /\ FindingsAt(f, r, ms[1]) = <<>>
           /\ FindingsAt(f, r, ms[2]) # <<>>
           /\ \E k \in 1..Len(rules[r].whitelist) : IsMatch(rules[r].whitelist[k], code)

\* the forward check of the rule for the primary match m compiles
Compiles(rule, code, m) ==
    LET caps == Captures(rule.regex, SubSeq(code, m[1] + 1, m[2]))
    IN IsSome(caps) /\ CompileOk(Substitute(rule.forward_check[1], caps[1]))

\* the matches in code of the forward check of the rule for the primary match m
Secondary(rule, code, m) ==
    LET caps == Captures(rule.regex, SubSeq(code, m[1] + 1, m[2]))
    IN FindIter(RegexNew(Substitute(rule.forward_check[1], caps[1])), code)

\* the surviving primary matches before the first whose forward check does
\* not compile
Reached(rule, code) ==
    LET surv == Surviving(rule, code)
    IN {j \in 1..Len(surv) : \A i \in 1..j : Compiles(rule, code, surv[i])}

\* C8 as stated: the findings of a forward-check rule in a file are as many
\* as the secondary matches of all its surviving primary matches whose forward
\* check compiles.
C8_CountOverAllCompilingMatches ==
    \A f \in DOMAIN fs : \A r \in 1..Len(rules) :
        (returned[f] = "ok" /\ GatesOpen(rules[r]) /\ rules[r].forward_check # None) =>
            LET code == fs[f].text
                surv == Surviving(rules[r], code)
                ok == {j \in 1..Len(surv) : Compiles(rules[r], code, surv[j])}
            IN Len(Findings(f, r)) =
                   Cardinality(UNION {{<<j, k>> : k \in 1..Len(Secondary(rules[r], code, surv[j]))}
                                         : j \in ok})

\* the primary and secondary spans a forward-check rule reports in code, in
\* order, from its j-th surviving primary match on: the scan ends at the
\* first forward check that does not compile
RECURSIVE ForwardCheckSpans(_, _, _, _)
ForwardCheckSpans(rule, code, surv, j) ==
    IF j > Len(surv) \/ ~Compiles(rule, code, surv[j]) THEN <<>>
    ELSE LET sec == Secondary(rule, code, surv[j])
         IN [k \in 1..Len(sec) |-> <<surv[j], sec[k]>>]
                \o ForwardCheckSpans(rule, code, surv, j + 1)

\* C8 (amended): a surviving primary match of a forward-check rule that comes
\* before the first one whose forward check does not compile has exactly one
\* finding per match of its secondary regex in the whole file, with the lines
\* of the secondary match, whitelisted or not, and the rule has no other
\* finding in the file.  The findings of the rule in the sink are at all
\* times the first of these, in order, and all of them once analyze_file has
\* returned.
C8_OneFindingPerSecondaryMatch ==
    \A f \in DOMAIN fs : \A r \in 1..Len(rules) :
        (GatesOpen(rules[r]) /\ rules[r].forward_check # None) =>
            LET code == fs[f].text
                all == ForwardCheckSpans(rules[r], code, Surviving(rules[r], code), 1)
                got == Findings(f, r)
            IN /\ Len(got) <= Len(all)
               /\ \A i \in 1..Len(got) :
                      /\ <<<<got[i].ps, got[i].pe>>, <<got[i].s, got[i].e>>>> = all[i]
                      /\ got[i].start_line = NewlinesBefore(code, got[i].s)
                      /\ got[i].end_line = NewlinesBefore(code, got[i].e)
               /\ returned[f] = "ok" =>
                      /\ Len(got) = Len(all)
                      /\ Len(got) =
                             Cardinality(UNION {{<<j, k>> : k \in 1..Len(Secondary(rules[r], code,
                                                                 Surviving(rules[r], code)[j]))}
                                                   : j \in Reached(rules[r], code)})

\* two primary matches with the same capture have each reported the two
\* secondary matches
C8_Witness ==
    \E f \in DOMAIN fs : \E r \in 1..Len(rules) :
        LET code == fs[f].text
            surv == Surviving(rules[r], code)
        IN /\ returned[f] = "ok" /\ rules[r].forward_check # None
           /\ Len(surv) = 2 /\ Reached(rules[r], code) = {1, 2}
           /\ Len(Secondary(rules[r], code, surv[1])) = 2
           /\ Secondary(rules[r], code, surv[1]) = Secondary(rules[r], code, surv[2])
           /\ Len(Findings(f, r)) = 4

\* the starts of the non-overlapping matches of re in text: no two of them
\* overlap, and a match that is left out overlaps one that starts before it
NonOverlapping(re, text) ==
    LET hits == {p \in 0..Len(text) : MatchAt(re, text, p)}
    IN CHOOSE S \in SUBSET hits :
           /\ \A p, q \in S : p < q => p + Len(re.cls) <= q
           /\ \A p \in hits \ S : \E q \in S : q < p /\ p < q + Len(re.cls)

\* C9: a rule without forward check whose gates are open never has more
\* findings in a file than it has non-overlapping primary matches that no
\* whitelist regex matches, and has exactly as many once analyze_file has
\* returned.
C9_OneFindingPerSurvivingMatch ==
    \A f \in DOMAIN fs : \A r \in 1..Len(rules) :
        (GatesOpen(rules[r]) /\ rules[r].forward_check = None) =>
            LET code == fs[f].text
                len == Len(rules[r].regex.cls)
                surviving == {p \in NonOverlapping(rules[r].regex, code) :
                                  ~HitWhitelisted(rules[r], code, <<p, p + len>>)}
            IN /\ Len(Findings(f, r)) <= Cardinality(surviving)
               /\ returned[f] = "ok" => Len(Findings(f, r)) = Cardinality(surviving)

\* a rule without forward check has reported two matches of the same line and
\* lost a third to the whitelist
C9_Witness ==
    \E f \in DOMAIN fs : \E r \in 1..Len(rules) :
        LET fd == Findings(f, r)
        IN /\ returned[f] = "ok" /\ rules[r].forward_check = None
           /\ Len(fd) = 2 /\ Len(FindIter(rules[r].regex, fs[f].text)) = 3
           /\ fd[1].start_line = fd[2].start_line /\ fd[1].end_line = fd[2].end_line

\* C10: a rule whose max_sdk is set and below the minimum SDK of a present
\* manifest reports nothing.  In every other case the SDK does not silence
\* the rule: if it has no forward check, holds its permissions and has a
\* surviving primary match, it has a finding once analyze_file has returned.
C10_SdkGate ==
    \A f \in DOMAIN fs : \A r \in 1..Len(rules) :
        LET below == /\ rules[r].max_sdk # None /\ manifest # None
                     /\ rules[r].max_sdk[1] < manifest[1].min_sdk
        IN /\ below => Findings(f, r) = <<>>
           /\ (/\ ~below
               /\ returned[f] = "ok" /\ rules[r].forward_check = None
               /\ Surviving(rules[r], fs[f].text) # <<>>
               /\ \A k \in 1..Len(rules[r].permissions) :
                      manifest # None /\ rules[r].permissions[k] \in manifest[1].permissions)
                  => Findings(f, r) # <<>>

\* a rule with max_sdk below the minimum SDK matched the file and reported
\* nothing
C10_Witness ==
    \E f \in DOMAIN fs : \E r \in 1..Len(rules) :
        /\ returned[f] = "ok" /\ manifest # None /\ rules[r].max_sdk # None
        /\ rules[r].max_sdk[1] < manifest[1].min_sdk
        /\ Surviving(rules[r], fs[f].text) # <<>>
        /\ Findings(f, r) = <<>>

\* C11: a rule with a nonempty permission list reports nothing on a file when
\* the manifest is absent or lacks one of the listed permissions.  In every
\* other case (an empty list with or without manifest, or a manifest holding
\* every listed permission) the permissions do not silence the rule: if it
\* has no forward check, passes the SDK gate and has a surviving primary
\* match, it has a finding once analyze_file has returned.
C11_PermissionGate ==
    \A f \in DOMAIN fs : \A r \in 1..Len(rules) :
        LET lacking == /\ rules[r].permissions # <<>>
                       /\ \/ manifest = None
                          \/ \E k \in 1..Len(rules[r].permissions) :
                                 rules[r].permissions[k] \notin manifest[1].permissions
        IN /\ lacking => Findings(f, r) = <<>>
           /\ (/\ ~lacking
               /\ returned[f] = "ok" /\ rules[r].forward_check = None
               /\ Surviving(rules[r], fs[f].text) # <<>>
               /\ \/ manifest = None \/ rules[r].max_sdk = None
                  \/ rules[r].max_sdk[1] >= manifest[1].min_sdk)
                  => Findings(f, r) # <<>>

\* a rule that matched the file reported nothing because the manifest holds
\* one of its two permissions only
C11_Witness ==
    \E f \in DOMAIN fs : \E r \in 1..Len(rules) :
        /\ returned[f] = "ok" /\ manifest # None
        /\ \E k \in 1..Len(rules[r].permissions) :
               rules[r].permissions[k] \in manifest[1].permissions
        /\ \E k \in 1..Len(rules[r].permissions) :
               rules[r].permissions[k] \notin manifest[1].permissions
        /\ Surviving(rules[r], fs[f].text) # <<>>
        /\ Findings(f, r) = <<>>

\* ---- the loader on the catalog files

\* the elements of the catalog file when it is an array
Items == IF rules_json.t = "array" THEN rules_json.items ELSE <<>>

\* the captures the pattern of the element declares
Declares(el, name) ==
    /\ el.keys["regex"].t = "string" /\ el.keys["regex"].ok
    /\ IF name = "fc1" THEN el.keys["regex"].re.fc1 # <<>> ELSE el.keys["regex"].re.fc2 # <<>>

\* the template of the element has the placeholder
HasPlaceholder(el, tok) ==
    \E j \in 1..Len(el.keys["forward_check"].s) : el.keys["forward_check"].s[j] = tok

\* the element passes every validation step of the catalog schema: an object
\* of 4 to 8 keys; a pattern that compiles; max_sdk an unsigned number;
\* permissions known; a forward check, when there is one, with the
\* placeholder of every declared capture and fc1 declared with fc2; label and
\* description strings; a criticity of the five; whitelist patterns that
\* compile
ValidElement(el) ==
    /\ el.t = "object"
    /\ Cardinality({k \in Keys : el.keys[k].t # "absent"}) + el.extra \in 4..8
    /\ el.keys["regex"].t = "string" /\ el.keys["regex"].ok
    /\ el.keys["max_sdk"].t \in {"absent", "u64"}
    /\ \/ el.keys["permissions"].t = "absent"
       \/ /\ el.keys["permissions"].t = "array"
          /\ \A j \in 1..Len(el.keys["permissions"].items) :
                 /\ el.keys["permissions"].items[j].t = "string"
                 /\ el.keys["permissions"].items[j].s \in {<<"INTERNET">>, <<"CAMERA">>}
    /\ \/ el.keys["forward_check"].t = "absent"
       \/ /\ el.keys["forward_check"].t = "string"
          /\ Declares(el, "fc1") => HasPlaceholder(el, "{fc1}")
          /\ Declares(el, "fc2") => HasPlaceholder(el, "{fc2}")
          /\ Declares(el, "fc2") => Declares(el, "fc1")
    /\ el.keys["label"].t = "string"
    /\ el.keys["description"].t = "string"
    /\ el.keys["criticity"].t = "string"
    /\ el.keys["criticity"].s \in
           {<<"warning">>, <<"Warning">>, <<"low">>, <<"medium">>, <<"high">>, <<"HIGH">>,
            <<"critical">>, <<"Critical">>}
    /\ \/ el.keys["whitelist"].t = "absent"
       \/ /\ el.keys["whitelist"].t = "array"
          /\ \A j \in 1..Len(el.keys["whitelist"].items) :
                 /\ el.keys["whitelist"].items[j].t = "string"
                 /\ el.keys["whitelist"].items[j].ok

\* code_analysis has left load_rules behind
LoadOver == mpc # "load"

\* nothing was scanned: no file enumerated or queued, no worker started, no
\* file analysed, nothing in the sink or in Results
NothingScanned ==
    /\ enumerated = <<>> /\ files = <<>> /\ total_files = 0
    /\ spawned = 0 /\ \A w \in Workers : wpc[w] = "unspawned"
    /\ \A f \in DOMAIN fs : popCount[f] = 0 /\ analysed[f] = <<>>
    /\ found_vulns = <<>> /\ results = <<>> /\ benchmarks = <<>>

\* C12: when load_rules has failed, code_analysis has returned and nothing
\* was scanned: no file is enumerated, no worker started, Results holds no
\* vulnerability and no benchmark, though benchmarks are asked for.
C12_LoadFailureAbortsBeforeScanning ==
    (LoadOver /\ load_rules(rules_json).err # None)
        => mpc = "returned" /\ NothingScanned

\* the load failed on an unknown permission with a file waiting on disk and
\* benchmarks on
C12_Witness ==
    /\ mpc = "returned" /\ bench /\ dist.entries # <<>> /\ NothingScanned
    /\ \E i \in 1..Len(Items) :
           /\ Items[i].t = "object" /\ Items[i].keys["permissions"].t = "array"
           /\ \E j \in 1..Len(Items[i].keys["permissions"].items) :
                  Items[i].keys["permissions"].items[j].s = <<"FLY">>

\* C13: when some element of the catalog array fails a validation step,
\* load_rules returns the error ParseError and the facade has no rule, also
\* when the elements before it were valid.
C13_NoPartialCatalog ==
    (LoadOver /\ \E i \in 1..Len(Items) : ~ValidElement(Items[i]))
        => /\ load_rules(rules_json).err = Some("ParseError")
           /\ rules = <<>>
           /\ mpc = "returned"

\* the second element failed a check after a valid first one, and no rule
\* was kept
C13_Witness ==
    /\ LoadOver /\ Len(Items) >= 2
    /\ ValidElement(Items[1]) /\ ~ValidElement(Items[2])
    /\ rules = <<>> /\ mpc = "returned"

\* C14: a catalog of valid elements, one of which declares both fc1 and fc2
\* (in either order) and has both placeholders in its forward check, is
\* loaded.
C14_BothCapturesAccepted ==
    (/\ LoadOver /\ rules_json.t = "array"
     /\ \A i \in 1..Len(Items) : ValidElement(Items[i])
     /\ \E i \in 1..Len(Items) :
            /\ Declares(Items[i], "fc1") /\ Declares(Items[i], "fc2")
            /\ Items[i].keys["forward_check"].t = "string"
            /\ HasPlaceholder(Items[i], "{fc1}") /\ HasPlaceholder(Items[i], "{fc2}"))
        => Len(rules) = Len(Items)

\* C15 as stated: every loaded rule that declares fc2 declares fc1.
C15_Fc2RequiresFc1 ==
    \A r \in 1..Len(rules) : rules[r].regex.fc2 # <<>> => rules[r].regex.fc1 # <<>>

\* C15: every loaded rule with a forward check that declares fc2 declares
\* fc1, and a catalog with an element that has a forward check and declares
\* fc2 without fc1 is not loaded.
C15_Fc2RequiresFc1WithForwardCheck ==
    /\ \A r \in 1..Len(rules) :
           (rules[r].forward_check # None /\ rules[r].regex.fc2 # <<>>)
               => rules[r].regex.fc1 # <<>>
    /\ (LoadOver /\ \E i \in 1..Len(Items) :
                        /\ Items[i].t = "object"
                        /\ Items[i].keys["forward_check"].t = "string"
                        /\ Declares(Items[i], "fc2") /\ ~Declares(Items[i], "fc1"))
           => rules = <<>> /\ mpc = "returned"

\* a rule with a forward check and both captures was loaded
C15_Witness ==
    /\ LoadOver
    /\ \E r \in 1..Len(rules) :
           /\ rules[r].forward_check # None
           /\ rules[r].regex.fc2 # <<>> /\ rules[r].regex.fc1 # <<>>

\* C16 as stated: every loaded rule that declares fcN has a forward check
\* with the placeholder {fcN}.
C16_PlaceholderForEveryCapture ==
    \A r \in 1..Len(rules) :
        /\ rules[r].regex.fc1 # <<>>
               => /\ rules[r].forward_check # None
                  /\ \E j \in 1..Len(rules[r].forward_check[1]) :
                         rules[r].forward_check[1][j] = "{fc1}"
        /\ rules[r].regex.fc2 # <<>>
               => /\ rules[r].forward_check # None
                  /\ \E j \in 1..Len(rules[r].forward_check[1]) :
                         rules[r].forward_check[1][j] = "{fc2}"

\* C16: every loaded rule with a forward check that declares fcN has {fcN}
\* in the template, and a catalog with an element that has a forward check
\* and declares fcN without {fcN} in it is not loaded.
C16_PlaceholderForEveryCaptureWithForwardCheck ==
    /\ \A r \in 1..Len(rules) :
           rules[r].forward_check # None
               => /\ rules[r].regex.fc1 # <<>>
                         => \E j \in 1..Len(rules[r].forward_check[1]) :
                                rules[r].forward_check[1][j] = "{fc1}"
                  /\ rules[r].regex.fc2 # <<>>
                         => \E j \in 1..Len(rules[r].forward_check[1]) :
                                rules[r].forward_check[1][j] = "{fc2}"
    /\ (LoadOver /\ \E i \in 1..Len(Items) :
                        /\ Items[i].t = "object"
                        /\ Items[i].keys["forward_check"].t = "string"
                        /\ \/ Declares(Items[i], "fc1") /\ ~HasPlaceholder(Items[i], "{fc1}")
                           \/ Declares(Items[i], "fc2") /\ ~HasPlaceholder(Items[i], "{fc2}"))
           => rules = <<>> /\ mpc = "returned"

\* a rule with both captures and both placeholders was loaded
C16_Witness ==
    /\ LoadOver
    /\ \E r \in 1..Len(rules) :
           /\ rules[r].regex.fc1 # <<>> /\ rules[r].regex.fc2 # <<>>
           /\ rules[r].forward_check # None
           /\ \E j \in 1..Len(rules[r].forward_check[1]) : rules[r].forward_check[1][j] = "{fc2}"

\* C17: a catalog with a rule object that has a key outside the eight known
\* ones is not loaded.
C17_UnknownKeyRejected ==
    (LoadOver /\ \E i \in 1..Len(Items) : Items[i].t = "object" /\ Items[i].extra > 0)
        => rules = <<>> /\ mpc = "returned"

\* C18: in a loaded catalog the max_sdk of the rule of an element that gives
\* the unsigned number n is nonnegative and is n.
C18_MaxSdkPreserved ==
    (LoadOver /\ rules_json.t = "array" /\ Len(rules) = Len(Items))
        => \A i \in 1..Len(Items) :
               Items[i].keys["max_sdk"].t = "u64"
                   => /\ rules[i].max_sdk # None
                      /\ rules[i].max_sdk[1] >= 0
                      /\ <<0, 0, rules[i].max_sdk[1] \div 65536, rules[i].max_sdk[1] % 65536>>
                             = Items[i].keys["max_sdk"].n

\* the criticity c is the one the string s names, whatever the case
SameCriticity(c, s) ==
    \/ s = <<c>>
    \/ c = "warning" /\ s = <<"Warning">>
    \/ c = "high" /\ s = <<"HIGH">>
    \/ c = "critical" /\ s = <<"Critical">>

\* C19: when load_rules succeeds the catalog has one rule per element of the
\* array and the i-th rule is built from the i-th element; in the sink the
\* findings of a file come in the order of the rules, and a rule with a
\* finding is one whose element has a pattern that matches the file.
C19_OneRulePerElementInOrder ==
    (LoadOver /\ load_rules(rules_json).err = None)
        => /\ Len(rules) = Len(Items)
           /\ \A i \in 1..Len(Items) :
                  /\ rules[i].label = Items[i].keys["label"].s
                  /\ rules[i].description = Items[i].keys["description"].s
                  /\ rules[i].regex = Items[i].keys["regex"].re
                  /\ SameCriticity(rules[i].criticity, Items[i].keys["criticity"].s)
                  /\ rules[i].forward_check =
                         IF Items[i].keys["forward_check"].t = "absent" THEN <<>>
                         ELSE <<Items[i].keys["forward_check"].s>>
                  /\ (rules[i].max_sdk = None) = (Items[i].keys["max_sdk"].t = "absent")
                  /\ Len(rules[i].permissions) = Len(Items[i].keys["permissions"].items)
                  /\ \A k \in 1..Len(rules[i].permissions) :
                         <<rules[i].permissions[k]>> = Items[i].keys["permissions"].items[k].s
                  /\ Len(rules[i].whitelist) = Len(Items[i].keys["whitelist"].items)
                  /\ \A k \in 1..Len(rules[i].whitelist) :
                         rules[i].whitelist[k] = Items[i].keys["whitelist"].items[k].re
           /\ \A i, j \in 1..Len(found_vulns) :
                  (i < j /\ found_vulns[i].file = found_vulns[j].file)
                      => found_vulns[i].rule <= found_vulns[j].rule
           /\ \A i \in 1..Len(found_vulns) :
                  /\ found_vulns[i].rule \in 1..Len(Items)
                  /\ IsMatch(Items[found_vulns[i].rule].keys["regex"].re,
                             fs[found_vulns[i].file].text)

\* two elements with different labels and patterns were loaded and both
\* rules have reported on the file, the first rule first
C19_Witness ==
    /\ mpc = "returned" /\ Len(rules) = 2
    /\ rules[1].label # rules[2].label /\ rules[1].regex # rules[2].regex
    /\ Len(found_vulns) = 2
    /\ found_vulns[1].rule = 1 /\ found_vulns[2].rule = 2

\* ---- the order of the sink

\* the finding v comes before the finding w in the order of one file: by
\* rule, then by primary match, then by secondary match
Before(v, w) ==
    \/ v.rule < w.rule
    \/ v.rule = w.rule /\ v.ps < w.ps
    \/ v.rule = w.rule /\ v.ps = w.ps /\ v.s < w.s

\* C20: in every reachable state, two findings of the same file stand in the
\* sink in the order of their rules, then of their primary matches, then of
\* their secondary matches, whatever the other workers have pushed between
\* them.
C20_OrderWithinFile ==
    \A i, j \in 1..Len(found_vulns) :
        (i < j /\ found_vulns[i].file = found_vulns[j].file)
            => Before(found_vulns[i], found_vulns[j])

\* two findings of one rule on one file, at two primary matches, with a
\* finding of another file pushed between them
C20_Witness ==
    \E i, j, k \in 1..Len(found_vulns) :
        /\ i < j /\ j < k
        /\ found_vulns[i].file = found_vulns[k].file
        /\ found_vulns[j].file # found_vulns[i].file
        /\ found_vulns[i].rule = found_vulns[k].rule
        /\ found_vulns[i].ps < found_vulns[k].ps

\* ---- files that cannot be decoded

\* C21: a file whose bytes are not valid UTF-8 has no finding in the sink or
\* in Results; it has no warning before it is analysed and exactly one after,
\* and none about a forward check; the worker that took it goes back to the
\* queue: it is not stopped in that file, and is done only with the queue
\* empty.
C21_NotUtf8OneWarning ==
    \A f \in DOMAIN fs :
        fs[f].io = "utf8" =>
            /\ \A i \in 1..Len(found_vulns) : found_vulns[i].file # f
            /\ \A i \in 1..Len(results) : results[i].file # f
            /\ \A w \in Workers :
                   /\ CopiesIn(Warning("file", f, 0, w), warnings)
                          = Cardinality({i \in DOMAIN analysed[f] : analysed[f][i] = w})
                   /\ \A r \in 1..Len(rules) :
                          CopiesIn(Warning("forward_check", f, r, w), warnings) = 0
                   /\ (cur[w] = f /\ wpc[w] # "open")
                          => /\ wpc[w] \in {"lock_files", "pop", "done"}
                             /\ wpc[w] = "done" => files = <<>>
            /\ Len(analysed[f]) <= 1

\* a worker has taken a file that is not UTF-8, warned once, and has then
\* analysed the next file of the queue
C21_Witness ==
    \E f, g \in DOMAIN fs :
        /\ fs[f].io = "utf8" /\ returned[f] = "err"
        /\ \E i, j \in 1..Len(enumerated) : i < j /\ enumerated[i] = g /\ enumerated[j] = f
        /\ analysed[g] = analysed[f] /\ Len(analysed[f]) = 1
        /\ CopiesIn(Warning("file", f, 0, analysed[f][1]), warnings) = 1
        /\ returned[g] = "ok"

\* ---- the order of the queue

\* the files of q from the smallest id to the largest
RECURSIVE Ascending(_)
Ascending(q) ==
    IF q = <<>> THEN <<>>
    ELSE LET m == CHOOSE x \in {q[i] : i \in DOMAIN q} : \A i \in DOMAIN q : x <= q[i]
         IN <<m>> \o Ascending(SelectSeq(q, LAMBDA x : x # m))

\* C22: with one worker, Results holds at the return the multiset of
\* findings that the run on the same files in another order of the queue
\* (the ascending one) hands over: the order of the file list does not
\* matter.
C22_PermutationOfTheQueue ==
    (mpc = "returned" /\ threads = 1)
        => BagOfSeq(results) = BagOfSeq(OneWorker(Ascending(enumerated)))

\* ---- line numbers of a finding

\* C23: every finding, of a primary match or of a forward-check match, in
\* the sink or in Results, has end_line >= start_line >= 0.
C23_LinesOrdered ==
    /\ \A i \in DOMAIN found_vulns :
           found_vulns[i].end_line >= found_vulns[i].start_line
               /\ found_vulns[i].start_line >= 0
    /\ \A i \in DOMAIN results :
           results[i].end_line >= results[i].start_line /\ results[i].start_line >= 0

\* a finding of a forward-check match that starts after its primary match
\* and ends on a later line than it starts
C23_Witness ==
    /\ mpc = "returned"
    /\ \E i \in DOMAIN results :
           /\ IsSome(rules[results[i].rule].forward_check)
           /\ results[i].s > results[i].ps
           /\ results[i].end_line > results[i].start_line

\* ---- the walk over the project tree

\* the files of the tree d, which stands at the relative path path: id and
\* name of the file, the path of its directory, and whether read_dir gave
\* every entry of that directory together with its type
RECURSIVE FilesUnder(_, _)
FilesUnder(path, d) ==
    UNION {IF d.entries[i].kind = "file"
           THEN {[id |-> d.entries[i].id, name |-> d.entries[i].name, dir |-> path,
                  clean |-> \A j \in DOMAIN d.entries : d.entries[j].kind \in {"file", "dir"}]}
           ELSE IF d.entries[i].kind = "dir"
           THEN FilesUnder(Append(path, d.entries[i].name), d.entries[i])
           ELSE {} : i \in DOMAIN d.entries}

IsPrefix(a, p) == Len(a) <= Len(p) /\ SubSeq(p, 1, Len(a)) = a

\* the path lies in classes/android, classes/com/google/android/gms or
\* smali, or in a directory named original
LeftOut(p) ==
    \/ IsPrefix(<<<<"classes">>, <<"android">>>>, p)
    \/ IsPrefix(<<<<"classes">>, <<"com">>, <<"google">>, <<"android">>, <<"gms">>>>, p)
    \/ IsPrefix(<<<<"smali">>>>, p)
    \/ \E i \in DOMAIN p : p[i] = <<"original">>

\* the name ends in .xml or .java and is none of the names left out
NameToScan(name) ==
    /\ Len(name) >= 3
    /\ name[Len(name) - 1] = "."
    /\ name[Len(name)] \in {"xml", "java"}
    /\ name # <<"AndroidManifest", ".", "xml">>
    /\ name # <<"R", ".", "java">>
    /\ name[1] # "R$"

\* the file f has been queued, popped or reported
Touched(f) ==
    \/ \E i \in DOMAIN enumerated : enumerated[i] = f
    \/ \E i \in DOMAIN files : files[i] = f
    \/ popCount[f] > 0
    \/ \E w \in Workers : cur[w] = f
    \/ \E i \in DOMAIN found_vulns : found_vulns[i].file = f
    \/ \E i \in DOMAIN results : results[i].file = f

\* C24: when a directory cannot be read, the files to scan of every
\* directory that can be read and is not left out are still enumerated,
\* those after the unreadable directory too, and they are scanned.
C24_OtherDirectoriesStillWalked ==
    \A x \in FilesUnder(<<>>, dist) :
        (NameToScan(x.name) /\ ~LeftOut(x.dir) /\ x.clean)
            => /\ mpc \notin {"load", "walk"} => \E i \in DOMAIN enumerated : enumerated[i] = x.id
               /\ mpc = "returned" => popCount[x.id] = 1

\* C25: no file under classes/android, classes/com/google/android/gms or
\* smali, or under a directory named original at any depth, is ever queued,
\* popped or reported in a finding.
C25_LeftOutNeverQueued ==
    \A x \in FilesUnder(<<>>, dist) : LeftOut(x.dir) => ~Touched(x.id)

\* the run has returned findings of classes and lib, which hold files under
\* classes/android, under classes/com/google/android/gms and under a nested
\* directory named original
C25_Witness ==
    /\ mpc = "returned"
    /\ \E i \in DOMAIN results : results[i].file = 11
    /\ \E i \in DOMAIN results : results[i].file = 15
    /\ \E x, y, z \in FilesUnder(<<>>, dist) :
           /\ x.dir = <<<<"classes">>, <<"android">>>> /\ NameToScan(x.name)
           /\ y.dir = <<<<"classes">>, <<"com">>, <<"google">>, <<"android">>, <<"gms">>>>
           /\ z.dir = <<<<"lib">>, <<"original">>>> /\ NameToScan(z.name)

\* C26: what is queued, popped or reported is a file of the tree, never a
\* directory, whose extension is exactly xml or java and whose name is not
\* AndroidManifest.xml, not R.java and does not begin with R$.
C26_OnlyEligibleQueued ==
    \A f \in DOMAIN fs :
        Touched(f) => \E x \in FilesUnder(<<>>, dist) : x.id = f /\ NameToScan(x.name)

\* the run has returned the finding of gen/S.java next to gen/R.java and a
\* file R$layout.java
C26_Witness ==
    /\ mpc = "returned"
    /\ \E i \in DOMAIN results : results[i].file = 23
    /\ \E x, y \in FilesUnder(<<>>, dist) :
           /\ x.name = <<"R", ".", "java">> /\ x.dir = <<<<"gen">>>>
           /\ y.name[1] = "R$"

\* ---- the progress lines of verbose mode

\* C27: in verbose mode, when code_analysis has returned, for every k from
\* 1 to 10 a progress line has been printed whose count is at least k tenths
\* of total_files (no worker has failed, all files have been processed).
C27_EveryTenthPrinted ==
    (/\ mpc = "returned" /\ verbose /\ total_files > 0
     /\ \A f \in DOMAIN fs : (\E i \in DOMAIN enumerated : enumerated[i] = f)
                                 => returned[f] # "none"
     /\ \A w \in Workers : wpc[w] # "panicked")
        => \A k \in 1..10 :
               \E i \in DOMAIN printed : printed[i] * 10 >= k * total_files

\* ---- termination

\* C28: code_analysis always goes on to return: the main thread is never in
\* the progress loop with files left in the queue once every worker has
\* ended, a state from which the queue stays as it is and the loop never
\* reads an empty queue.
C28_ProgressLoopCanEnd ==
    ~(/\ mpc \in {"progress_cond", "progress_body"}
      /\ files # <<>>
      /\ spawned = threads
      /\ \A w \in 1..threads : wpc[w] \in {"done", "panicked"})

\* ---- a forward check that does not compile

\* the forward_check warnings printed for the rule r in the file f
ForwardCheckWarned(f, r) ==
    LET ws == {Warning("forward_check", f, r, w) : w \in Workers}
    IN Cardinality({w \in ws : CopiesIn(w, warnings) > 0})
           + Cardinality({w \in ws : CopiesIn(w, warnings) > 1})

\* the first surviving primary match of the rule in code whose forward check
\* does not compile, 0 when all compile
FirstFailure(rule, code) ==
    LET surv == Surviving(rule, code)
        bad == {j \in 1..Len(surv) : ~Compiles(rule, code, surv[j])}
    IN IF bad = {} THEN 0 ELSE CHOOSE j \in bad : \A i \in bad : j <= i

\* C29: when the forward check of a primary match of a rule does not compile
\* in a file, the worker warns once for that rule and file and the rule has
\* no finding for that primary match or a later one; the findings of the
\* earlier primary matches are all in the sink once analyze_file has
\* returned, and so are the findings of the rules after it in the catalog.
\* This holds file by file, whatever happened to the rule in another file.
C29_CompileFailureEndsRuleInFile ==
    \A f \in DOMAIN fs : \A r \in 1..Len(rules) :
        LET code == fs[f].text
            surv == Surviving(rules[r], code)
            first == FirstFailure(rules[r], code)
        IN (rules[r].forward_check # None /\ GatesOpen(rules[r]) /\ first > 0) =>
               /\ ForwardCheckWarned(f, r) <= 1
               /\ \A j \in first..Len(surv) :
                      surv[j] \notin {surv[i] : i \in 1..(first - 1)}
                          => FindingsAt(f, r, surv[j]) = <<>>
               /\ returned[f] = "ok" =>
                      /\ ForwardCheckWarned(f, r) = 1
                      /\ \A j \in 1..(first - 1) :
                             Len(FindingsAt(f, r, surv[j]))
                                 = Len(Secondary(rules[r], code, surv[j]))
                      /\ \A n \in (r + 1)..Len(rules) :
                             (rules[n].forward_check = None /\ GatesOpen(rules[n]))
                                 => Len(Findings(f, n)) = Len(Surviving(rules[n], code))

\* the rule has stopped in the file popped first at its second primary match
\* of three, its two findings of the first match and the findings of the
\* next rule are in Results, and the rule has reported the file popped after
C29_Witness ==
    /\ mpc = "returned"
    /\ enumerated = <<2, 1>>
    /\ Len(Surviving(rules[1], fs[1].text)) = 3
    /\ FirstFailure(rules[1], fs[1].text) = 2
    /\ ForwardCheckWarned(1, 1) = 1
    /\ \E i, j, k \in DOMAIN results :
           /\ i < j /\ j < k
           /\ results[i].file = 1 /\ results[i].rule = 1
           /\ results[j].file = 1 /\ results[j].rule = 2
           /\ results[k].file = 2 /\ results[k].rule = 1
    /\ FirstFailure(rules[1], fs[2].text) = 0

\* ---- the two mutexes

\* the worker w waits for a mutex that another thread holds
Blocked(w) ==
    \/ wpc[w] = "lock_files" /\ filesLock # 0
    \/ wpc[w] = "lock_sink" /\ sinkLock # 0

\* the main thread waits for the queue mutex to read the length
MainBlocked == mpc \in {"progress_cond", "progress_body"} /\ filesLock # 0

\* C30: the queue mutex is held only by a worker that is about to pop, the
\* sink mutex only by a worker that is about to append; the main thread
\* holds neither beyond the read of the length.  So no thread holds both or
\* waits for one while holding the other, and whenever a thread waits for a
\* mutex the thread that holds it is not waiting for any.
C30_OneMutexAtATime ==
    /\ filesLock # 0 => filesLock \in 1..spawned /\ wpc[filesLock] = "pop"
    /\ sinkLock # 0 => sinkLock \in 1..spawned /\ wpc[sinkLock] = "push"
    /\ ~(filesLock # 0 /\ filesLock = sinkLock)
    /\ \A w \in Workers : Blocked(w) =>
           \E h \in Workers : h # w /\ ~Blocked(h) /\ wpc[h] \in {"pop", "push"}
    /\ MainBlocked => \E h \in Workers : ~Blocked(h) /\ wpc[h] = "pop"

\* a worker waits for the sink while the other worker holds it to append
C30_Witness ==
    /\ sinkLock # 0
    /\ \E w \in Workers : wpc[w] = "lock_sink" /\ Blocked(w)
    /\ found_vulns # <<>>

\* ---- the sink and Results

\* C31: a step never removes, reorders or changes a finding of the sink, it
\* only appends; and Results changes only when join has been attempted on
\* every worker and every worker has ended, by taking the sink as it is.
C31_SinkGrowsResultsAfterJoins ==
    [][/\ Len(found_vulns') >= Len(found_vulns)
       /\ SubSeq(found_vulns', 1, Len(found_vulns)) = found_vulns
       /\ results' # results =>
              /\ joined = threads
              /\ \A w \in 1..threads : wpc[w] \in {"done", "panicked"}
              /\ results' = found_vulns]_vars

\* two workers have been joined and Results holds findings of two files
C31_Witness ==
    /\ mpc = "returned" /\ threads = 2 /\ joined = 2
    /\ \E i, j \in DOMAIN results : results[i].file # results[j].file

\* ---- the captures of a primary match

\* the values of fc1 and fc2 in the match of re at offset s of the whole text
CapturesInFile(re, code, s) ==
    [fc1 |-> IF re.fc1 = <<>> THEN None ELSE Some(SubSeq(code, s + re.fc1[1], s + re.fc1[2])),
     fc2 |-> IF re.fc2 = <<>> THEN None ELSE Some(SubSeq(code, s + re.fc2[1], s + re.fc2[2]))]

\* C32: for a loaded rule with a forward check, the regex applied to the
\* text of any of its primary matches in a file, taken alone, matches with
\* the capture values it has in the file, and no worker has panicked on the
\* unwrap of the captures.
C32_CapturesOnSubstring ==
    /\ \A w \in Workers :
           ~(wpc[w] = "panicked" /\ plan[w] # <<>> /\ plan[w][1].kind = "panic")
    /\ \A f \in DOMAIN fs : \A r \in 1..Len(rules) :
           rules[r].forward_check # None =>
               LET code == fs[f].text
                   ms == FindIter(rules[r].regex, code)
               IN \A j \in 1..Len(ms) :
                      LET caps == Captures(rules[r].regex, SubSeq(code, ms[j][1] + 1, ms[j][2]))
                      IN /\ IsSome(caps)
                         /\ Unwrap(caps) = CapturesInFile(rules[r].regex, code, ms[j][1])

\* ---- the counters of the progress loop

\* C33: the queue never holds more than total_files files and last_print
\* never exceeds the number of files done, so neither subtraction of the
\* progress loop goes below 0; the numbers printed are strictly increasing
\* and at most total_files.
C33_ProgressCounters ==
    /\ Len(files) <= total_files
    /\ 0 <= last_print
    /\ last_print <= total_files - Len(files)
    /\ \A i \in DOMAIN printed : printed[i] <= total_files
    /\ \A i, j \in DOMAIN printed : i < j => printed[i] < printed[j]

\* the loop runs next to two workers and has printed twice, with files left
C33_Witness ==
    /\ mpc = "progress_body" /\ threads = 2
    /\ Len(printed) >= 2 /\ files # <<>>
    /\ \E w \in Workers : wpc[w] = "push"

\* ---- the decision procedure of the tests

\* C34: for a rule whose gates pass and a file that analyze_file has
\* analysed to the end, the rule has a finding in the file exactly when
\* check_match on the text of the file and the rule is true.
C34_CheckMatchAgreesWithEngine ==
    \A f \in DOMAIN fs : \A r \in 1..Len(rules) :
        (returned[f] = "ok" /\ GatesOpen(rules[r])) =>
            (Findings(f, r) # <<>>) = (check_match(fs[f].text, rules[r]) = "true")

\* ---- get_line_for

\* C35: for the text of the file and every offset i from 0 to its length,
\* get_line_for(i, text) is the number of newlines before offset i: 0 at
\* offset 0, all the newlines at the length, and never smaller at a larger
\* offset (looked at when code_analysis starts and when it has returned).
C35_LineIsNewlinesBefore ==
    mpc \in {"load", "returned"} => \A f \in DOMAIN fs :
        LET text == fs[f].text
        IN /\ \A i \in 0..Len(text) : get_line_for(i, text) = NewlinesBefore(text, i)
           /\ get_line_for(0, text) = 0
           /\ get_line_for(Len(text), text) = Cardinality({k \in 1..Len(text) : text[k] = "\n"})
           /\ \A i \in 1..Len(text) : get_line_for(i - 1, text) <= get_line_for(i, text)

\* a finding on the third line of a file with two newlines
C35_Witness ==
    /\ mpc = "returned"
    /\ \E i \in DOMAIN results :
           /\ results[i].start_line = 2
           /\ get_line_for(results[i].s, fs[results[i].file].text) = 2

\* ---- the order of the checks of load_rules

\* the checks of one element in the order of the catalog schema
CheckOrder ==
    <<"object", "len", "regex", "max_sdk", "permissions", "forward_check", "label",
      "description", "criticity", "whitelist">>

\* the element does not pass the check c, taken alone (the captures of a
\* forward check are tested as load_rules tests them)
FailsCheck(el, c) ==
    CASE c = "object" -> el.t # "object"
      [] c = "len" ->
             Cardinality({k \in Keys : el.keys[k].t # "absent"}) + el.extra \notin 4..8
      [] c = "regex" -> ~(el.keys["regex"].t = "string" /\ el.keys["regex"].ok)
      [] c = "max_sdk" -> el.keys["max_sdk"].t \notin {"absent", "u64"}
      [] c = "permissions" ->
             ~ \/ el.keys["permissions"].t = "absent"
               \/ /\ el.keys["permissions"].t = "array"
                  /\ \A j \in 1..Len(el.keys["permissions"].items) :
                         /\ el.keys["permissions"].items[j].t = "string"
                         /\ el.keys["permissions"].items[j].s \in {<<"INTERNET">>, <<"CAMERA">>}
      [] c = "forward_check" ->
             ~ \/ el.keys["forward_check"].t = "absent"
               \/ /\ el.keys["forward_check"].t = "string"
                  /\ ~PlaceholderMissing(CaptureNames(el.keys["regex"].re),
                                         el.keys["forward_check"].s)
                  /\ ~Fc2WithoutFc1(CaptureNames(el.keys["regex"].re))
      [] c = "label" -> el.keys["label"].t # "string"
      [] c = "description" -> el.keys["description"].t # "string"
      [] c = "criticity" ->
             ~ /\ el.keys["criticity"].t = "string"
               /\ el.keys["criticity"].s \in
                      {<<"warning">>, <<"Warning">>, <<"low">>, <<"medium">>, <<"high">>,
                       <<"HIGH">>, <<"critical">>, <<"Critical">>}
      [] c = "whitelist" ->
             ~ \/ el.keys["whitelist"].t = "absent"
               \/ /\ el.keys["whitelist"].t = "array"
                  /\ \A j \in 1..Len(el.keys["whitelist"].items) :
                         /\ el.keys["whitelist"].items[j].t = "string"
                         /\ el.keys["whitelist"].items[j].ok

\* the checks the element fails, as places in CheckOrder
Failing(el) == {k \in DOMAIN CheckOrder : FailsCheck(el, CheckOrder[k])}

Least(S) == CHOOSE x \in S : \A y \in S : x <= y

\* C36: when elements of the array fail checks, load_rules has returned at
\* the first check, in the order object, number of keys, regex, max_sdk,
\* permissions, forward_check, label, description, criticity, whitelist,
\* that the first such element fails: it has printed the warning of that
\* element only, no rule is loaded and nothing later is looked at.  When no
\* element fails a check the load returns after the last element.
C36_FirstFailingCheckOfFirstFailingRule ==
    (LoadOver /\ rules_json.t = "array") =>
        LET bad == {i \in DOMAIN Items : Failing(Items[i]) # {}}
        IN IF bad = {}
           THEN load_exit = [index |-> 0, step |-> "ok"] /\ Len(rules) = Len(Items)
           ELSE /\ load_exit = [index |-> Least(bad),
                                step |-> CheckOrder[Least(Failing(Items[Least(bad)]))]]
                /\ rules = <<>>
                /\ mpc = "returned"
                /\ \A i \in DOMAIN Items :
                       CopiesIn(Warning("rules", 0, i, MainThread), warnings)
                           = IF i = Least(bad) THEN 1 ELSE 0

\* the first element fails two checks and the load stopped at the earlier
\* one, although the second element fails a check that comes before both
C36_Witness ==
    /\ LoadOver /\ Len(Items) = 2
    /\ Cardinality(Failing(Items[1])) = 2
    /\ Failing(Items[2]) # {}
    /\ Least(Failing(Items[2])) < Least(Failing(Items[1]))
    /\ load_exit.index = 1
    /\ load_exit.step = CheckOrder[Least(Failing(Items[1]))]
    /\ load_exit.step \notin {"object", "len"}

\* ---- what the workers leave alone

\* a step of a worker
WorkerStep == \E w \in Workers : wpc'[w] # wpc[w] /\ wpc[w] # "unspawned"

\* C37: once the first worker is spawned, a step never adds a file to the
\* queue: the queue stays as it is or loses its last file, and no file that
\* was popped is in it; the catalog, the manifest and the file list of the
\* walk never change; a step of a worker leaves the queue or takes its last
\* file, leaves the sink or appends one finding, and changes nothing else
\* that the threads share.
C37_NoRequeueCatalogUntouched ==
    [][spawned > 0 =>
           /\ files' = files \/ (files # <<>> /\ files' = SubSeq(files, 1, Len(files) - 1))
           /\ \A i \in DOMAIN files' : popCount'[files'[i]] = 0
           /\ rules' = rules /\ manifest' = manifest /\ rules_json' = rules_json
           /\ enumerated' = enumerated /\ total_files' = total_files
           /\ WorkerStep =>
                  /\ files' = files \/ found_vulns' = found_vulns
                  /\ \/ found_vulns' = found_vulns
                     \/ /\ Len(found_vulns') = Len(found_vulns) + 1
                        /\ SubSeq(found_vulns', 1, Len(found_vulns)) = found_vulns
                  /\ UNCHANGED <<results, last_print, printed, mpc, spawned, joined,
                                 benchmarks, fs, dist>>]_vars

\* two workers have popped a file each, one is about to append its finding,
\* and a file is still in the queue
C37_Witness ==
    /\ threads = 2 /\ files # <<>>
    /\ \E v, w \in Workers : v # w /\ cur[v] # 0 /\ cur[w] # 0 /\ cur[v] # cur[w]
                                  /\ wpc[v] = "push"

====
